---- MODULE Spec2Model ----
(***************************************************************************)
(* Model of the agent-chaining executors of schema-icu-sdk-example:        *)
(* DAGExecutor and VisualPipeline (AGENT_CHAINING_PATTERNS.md),            *)
(* SequentialPipeline, ParallelPipeline, SmartRouter, RefinementLoop and   *)
(* FullStackGenerator (examples/pipelines), callWithRetry and the timeout   *)
(* of the network example (examples/error-handling.js), the wrappers       *)
(* throttle, debounce and memoize, the ProjectManager, and the entry       *)
(* points cli.js, index.js and error-handling.js.                          *)
(*                                                                         *)
(* One behaviour is one run of one of them.  An agent call is an           *)
(* asynchronous operation: it is started by the code and settles later in  *)
(* one of three ways (Outcome).  One action is one turn of the JavaScript  *)
(* event loop: the settling of one agent call followed by everything the   *)
(* continuations do until every one of them is suspended on an await       *)
(* again.                                                                  *)
(***************************************************************************)
EXTENDS Integers, Sequences, FiniteSets, TLC

\* ------------------------------------------------------------------ bounds
NumNodes == 3

Node == 1 .. NumNodes

MaxSteps == 3

Step == 1 .. MaxSteps

\* The retries callWithRetry may be given.
MaxRetries == 3

\* The time up to which a behaviour is followed, in units of the timers.
MaxClock == 6

\* How an agent call settles: it resolves with success = true ("ok"), it
\* resolves with success = false ("fail"), or its promise rejects ("throw").
Outcome == {"ok", "fail", "throw"}

VARIABLES
    engine,     \* the class whose run this behaviour is
    deps,       \* DAGExecutor: node.dependencies; VisualPipeline: node.inputs
    steps,      \* the list of steps or tasks passed to the run (their names)
    promise,    \* per step, the state of the promise of its execution
    op,         \* per step, how its agent call settled ("none" before)
    calls,      \* per step, the number of times its agent was invoked
    results,    \* the results Map (DAGExecutor, VisualPipeline) or array
    context,    \* SequentialPipeline: context; SmartRouter: accumulatedContext
    run,        \* the promise of the top-level call
    error,      \* what the top-level call rejected with
    returned,   \* what the top-level call resolved with
    entry,      \* DAGExecutor: 0 for execute(dag), n for executeNode(n, ...)
    executing,  \* DAGExecutor: the ids in the executing Map
    completed,  \* DAGExecutor: the completed Set
    executed,   \* VisualPipeline: the executed Set
    start,      \* VisualPipeline: the id of startNode, 0 when none is set
    stack,      \* VisualPipeline: the executeNode calls that have not returned
    pos,        \* the index of the step the loop of a list run is at
    pc,         \* where the step at pos is suspended
    chosenAgentName, \* SmartRouter: per task, the chosenTool it was routed to
    iterations, \* RefinementLoop: the iterations argument of refine
    currentCode,\* RefinementLoop: the iteration whose code currentCode holds
    history,    \* RefinementLoop: the history array
    options,    \* FullStackGenerator: includeTests, includeDeployment, includeDocs
    payload,    \* FullStackGenerator: per step, whether its response carries data
    unknown,    \* DAGExecutor: the nodes that list a dependency id no node has
    contextBuilder, \* the steps that carry a contextBuilder
    request,    \* per step, the arguments its agent was last called with
    recommendation, \* SmartRouter: per task, how toolChoice.recommend settled
    prev,       \* what the previous run on the same executor was and gave
    clock,      \* error-handling: the time elapsed
    timer,      \* error-handling: when the pending setTimeout is due, -1 if none
    aborted,    \* error-handling: controller.signal.aborted
    maxRetries, \* callWithRetry: the maxRetries argument
    delay,      \* callWithRetry, throttle, debounce: the delay argument
    waits,      \* callWithRetry: the time waited before each further attempt
    lastCall,   \* throttle: lastCall
    timers,     \* debounce: the timeouts that are set and have not fired
    timeoutId,  \* debounce: timeoutId, 0 while it is undefined or null
    immediate,  \* debounce: the immediate argument
    cache,      \* memoize: the cache Map
    called,     \* the calls made to the wrapper, the methods or the CLI
    invoked,    \* the calls these made to fn or to an agent
    authenticated, \* what client.isAuthenticated() returns
    exitCode,   \* the status process.exit was called with, -1 before
    printed     \* what was written to the console

\* What a run is given and never changes.
given == << engine, unknown, contextBuilder >>

errOnly == << clock, timer, aborted, maxRetries, delay, waits >>

\* The state of the function wrappers, the ProjectManager and the entry points.
appOnly == << lastCall, timers, timeoutId, immediate, cache, called, invoked,
             authenticated, exitCode, printed >>

\* What no run of an executor changes.
outer == << given, prev, errOnly, appOnly >>

dagOnly == << entry, executing, completed >>

routerOnly == << chosenAgentName, recommendation >>

visOnly == << executed, start, stack >>

genOnly == << options, payload >>

listOnly == << steps, context, pos, pc, routerOnly, iterations, currentCode,
              history, genOnly >>

\* What the actions of one class leave alone of the other classes' state.
dagRest == << visOnly, listOnly >>

visRest == << promise, request, dagOnly, listOnly >>

listRest == << deps, dagOnly, visOnly, iterations, currentCode, history, genOnly >>

parRest == << listRest, routerOnly, request >>

seqRest == << listRest, routerOnly >>

vars == << outer, deps, promise, op, calls, request, results, run, error, returned,
           dagOnly, visOnly, listOnly >>

\* ------------------------------------------------------------------ graphs
\* Dependency lists over the nodes of the graph; a node does not list itself.
Graphs == { g \in [Node -> SUBSET Node] : \A n \in Node : n \notin g[n] }

\* The nodes n depends on, directly or transitively.
TransDeps(n) ==
    LET R[k \in 0 .. NumNodes] ==
            IF k = 0 THEN deps[n]
            ELSE R[k - 1] \cup UNION { deps[m] : m \in R[k - 1] }
    IN  R[NumNodes]

OnCycle(n) == n \in TransDeps(n)

\* n, or a node n depends on, lies on a dependency cycle.
ReachesCycle(n) == \E m \in TransDeps(n) \cup {n} : OnCycle(m)

Cyclic == \E n \in Node : OnCycle(n)

\* The data field of the response of step n's agent.
DataOf(n) == n

EmptyMap == [x \in {} |-> 0]

MapSet(m, k, v) == [x \in DOMAIN m \cup {k} |-> IF x = k THEN v ELSE m[x]]

\* The sets of steps of D that a run may give a contextBuilder: none of
\* them, or every second one.
Builders(D) == { {}, { n \in D : n % 2 = 1 } }

\* What the contextBuilder of step n returns when it is called with x.
Built(n, x) == [builder |-> n, of |-> x]

\* The context of step n: contextBuilder(x) when the step has one, else x.
BuildContext(n, x) == IF n \in contextBuilder THEN Built(n, x) ELSE x

\* ------------------------------------------------------------- DAGExecutor
\* The sets of nodes that list an id no node of the graph has among their
\* dependencies: no node, or one node.  The graphs are all the graphs over
\* the ids, so that the one node may be taken to be node 1.
Unknowns == { {}, {1} }

\* node.dependencies is not empty.
HasDeps(n) == deps[n] # {} \/ n \in unknown

roots == { n \in Node : ~HasDeps(n) }

\* n, or a node n depends on, lists an id no node has: dag.nodes.find gives
\* undefined for it and executeNode(undefined, ...) rejects with a TypeError.
ReachesUnknown(n) == \E m \in TransDeps(n) \cup {n} : m \in unknown

\* DepResults with every stored result, declared as a dependency or not.
DepResultsAll(n, res) == res

\* depResults: results.get(depId) for every declared dependency of n.
DepResults(n, res) ==
    [d \in deps[n] |-> IF d \in DOMAIN res THEN res[d] ELSE "undefined"]

\* The arguments of agent[node.method](node.query, context) for node n.
DagRequest(n, res) == [context |-> BuildContext(n, DepResults(n, res))]

\* FirstAwait without the await of the dependencies.
FirstAwaitNoWait(n) == "agent"

\* A freshly created executionPromise runs synchronously up to its first
\* await: a node with dependencies awaits them, a node without calls its agent.
FirstAwait(n) == IF HasDeps(n) THEN "waiting" ELSE "agent"

\* The sets of nodes whose executeNode calls the synchronous expansion of
\* executeNode(t) makes.  Over an acyclic closure it is the closure.  Over a
\* cycle the expansion recurses until the stack overflows; the nodes reached
\* before that are some dependency-closed set of nodes that reach no cycle.
Requested(t) ==
    IF ~ReachesCycle(t)
    THEN { TransDeps(t) \cup {t} }
    ELSE { S \in SUBSET { m \in TransDeps(t) : ~ReachesCycle(m) } :
             \A m \in S : deps[m] \subseteq S }

\* What prev holds while the executor has made no run before this one.
NoRun(D) ==
    [run |-> "idle", error |-> "none", op |-> [n \in D |-> "none"],
     returned |-> EmptyMap, context |-> EmptyMap]

\* No timer is set and no time has passed.
ErrFresh ==
    /\ clock = 0
    /\ timer = -1
    /\ aborted = FALSE
    /\ maxRetries = 0
    /\ delay = 0
    /\ waits = << >>

\* No wrapper was created, no method or line was handled, nothing was printed.
AppFresh ==
    /\ lastCall = 0
    /\ timers = {}
    /\ timeoutId = 0
    /\ immediate = FALSE
    /\ cache = EmptyMap
    /\ called = << >>
    /\ invoked = << >>
    /\ exitCode = -1
    /\ printed = << >>

\* No run has begun: nothing was called, stored or returned.
Unstarted(D) ==
    /\ promise = [n \in D |-> "none"]
    /\ op = [n \in D |-> "none"]
    /\ calls = [n \in D |-> 0]
    /\ request = [n \in D |-> EmptyMap]
    /\ results = EmptyMap
    /\ run = "idle"
    /\ error = "none"
    /\ returned = EmptyMap
    /\ prev = NoRun(D)
    /\ ErrFresh
    /\ AppFresh

\* No run has begun, on a client that holds credentials.
Fresh(D) == Unstarted(D) /\ authenticated = TRUE

GraphFresh ==
    /\ entry = 0
    /\ executing = {}
    /\ completed = {}
    /\ executed = {}
    /\ start = 0
    /\ stack = << >>

ListFresh ==
    /\ context = EmptyMap
    /\ pos = 0
    /\ pc = "idle"
    /\ chosenAgentName = EmptyMap
    /\ recommendation = EmptyMap

RefineFresh ==
    /\ iterations = 0
    /\ currentCode = -1
    /\ history = << >>
    /\ options = EmptyMap
    /\ payload = EmptyMap

DagInit ==
    /\ engine = "DAGExecutor"
    /\ deps \in Graphs
    /\ unknown \in Unknowns
    /\ contextBuilder \in Builders(Node)
    /\ steps = << >>
    /\ Fresh(Node) /\ GraphFresh /\ ListFresh /\ RefineFresh

\* execute(dag): executeNode on every node without dependencies, in parallel.
DagExecute ==
    /\ engine = "DAGExecutor"
    /\ run = "idle"
    /\ entry' = 0
    /\ promise' = [n \in Node |-> IF n \in roots THEN "agent" ELSE "none"]
    /\ calls' = [n \in Node |-> IF n \in roots THEN 1 ELSE 0]
    /\ request' = [n \in Node |-> IF n \in roots THEN DagRequest(n, results)
                                   ELSE request[n]]
    /\ executing' = roots
    /\ run' = IF roots = {} THEN "resolved" ELSE "pending"
    /\ UNCHANGED << outer, deps, op, completed, results, error, returned, dagRest >>

\* executeNode(t, dag, new Map(), new Map(), new Set()) called on its own.
\* Every requested node is entered in executing; the executionPromise of a
\* node that reaches a cycle or an unknown id rejects before any agent call
\* settles, and so does the call on t when t is such a node.
DagExecuteNode(t) ==
    /\ engine = "DAGExecutor"
    /\ run = "idle"
    /\ entry' = t
    /\ \E S \in Requested(t) :
         LET p == [n \in Node |->
                     IF n \in S
                     THEN IF ReachesUnknown(n) THEN "rejected" ELSE FirstAwait(n)
                     ELSE IF n \in TransDeps(t) \cup {t} /\ ReachesCycle(n)
                          THEN "rejected" ELSE "none"]
         IN  /\ promise' = p
             /\ calls' = [n \in Node |-> IF p[n] = "agent" THEN 1 ELSE 0]
             /\ request' = [n \in Node |-> IF p[n] = "agent"
                                            THEN DagRequest(n, results)
                                            ELSE request[n]]
             /\ executing' = S \cup { n \in TransDeps(t) \cup {t} : ReachesCycle(n) }
    /\ run' = IF ReachesCycle(t) \/ ReachesUnknown(t) THEN "rejected" ELSE "pending"
    /\ error' \in { e \in {"RangeError", "TypeError", "none"} :
                      \/ e = "RangeError" /\ ReachesCycle(t)
                      \/ e = "TypeError" /\ ReachesUnknown(t)
                      \/ e = "none" /\ ~ReachesCycle(t) /\ ~ReachesUnknown(t) }
    /\ UNCHANGED << outer, deps, op, completed, results, returned, dagRest >>

\* The promise of the top-level call once the node promises are p.
DagRun(p) ==
    LET top == IF entry = 0 THEN roots ELSE {entry}
    IN  IF run # "pending" THEN run
        ELSE IF \E n \in top : p[n] = "rejected" THEN "rejected"
        ELSE IF \A n \in top : p[n] = "fulfilled" THEN "resolved"
        ELSE "pending"

\* The agent call of node n settles with outcome o.
DagSettle(n, o) ==
    /\ engine = "DAGExecutor"
    /\ promise[n] = "agent"
    /\ op' = [op EXCEPT ![n] = o]
    /\ IF o = "throw"
       THEN \* the executionPromise rejects; executing.delete is never reached,
            \* and every executionPromise awaiting this one rejects with it
            LET rej == {n} \cup { d \in Node : promise[d] = "waiting"
                                              /\ n \in TransDeps(d) }
                p == [d \in Node |-> IF d \in rej THEN "rejected" ELSE promise[d]]
            IN  /\ promise' = p
                /\ run' = DagRun(p)
                /\ error' = IF run = "pending" /\ DagRun(p) = "rejected"
                            THEN "Error" ELSE error
                /\ UNCHANGED << calls, request, executing, completed, results,
                                returned >>
       ELSE \* results.set, completed.add, executing.delete; the nodes that
            \* awaited only this dependency gather their inputs and call
            \* their agent
            LET done == completed \cup {n}
                go == { d \in Node : promise[d] = "waiting" /\ deps[d] \subseteq done }
                p == [d \in Node |-> IF d = n THEN "fulfilled"
                                     ELSE IF d \in go THEN "agent"
                                     ELSE promise[d]]
            IN  /\ results' = MapSet(results, n, DataOf(n))
                /\ completed' = done
                /\ executing' = executing \ {n}
                /\ promise' = p
                /\ calls' = [d \in Node |-> IF d \in go THEN calls[d] + 1 ELSE calls[d]]
                /\ request' = [d \in Node |-> IF d \in go THEN DagRequest(d, results')
                                               ELSE request[d]]
                /\ run' = DagRun(p)
                /\ returned' = IF run = "pending" /\ DagRun(p) = "resolved" /\ entry = 0
                               THEN results' ELSE returned
                /\ UNCHANGED error
    /\ UNCHANGED << outer, deps, entry, dagRest >>

\* What the run that has just settled was and gave, kept for comparison.
LastRun ==
    [run |-> run, error |-> error, op |-> op, returned |-> returned,
     context |-> context]

\* const results = new Map() at the head of execute.
NewResults == EmptyMap

\* execute(dag) once more on the same executor and the same dag, after an
\* execute(dag) that has settled.  execute makes new results, executing and
\* completed; what calls of the run before are still in flight write to the
\* collections of that run, which nothing reads any more.
DagExecuteAgain ==
    /\ engine = "DAGExecutor"
    /\ run \in {"resolved", "rejected"}
    /\ entry = 0
    /\ prev.run = "idle"
    /\ prev' = LastRun
    /\ results' = NewResults
    /\ completed' = {}
    /\ executing' = roots
    /\ promise' = [n \in Node |-> IF n \in roots THEN "agent" ELSE "none"]
    /\ op' = [n \in Node |-> "none"]
    /\ calls' = [n \in Node |-> IF n \in roots THEN 1 ELSE 0]
    /\ request' = [n \in Node |-> IF n \in roots THEN DagRequest(n, results')
                                   ELSE EmptyMap]
    /\ run' = IF roots = {} THEN "resolved" ELSE "pending"
    /\ error' = "none"
    /\ returned' = EmptyMap
    /\ UNCHANGED << given, errOnly, appOnly, deps, entry, dagRest >>

DagNext ==
    \/ DagExecute
    \/ \E t \in Node : DagExecuteNode(t)
    \/ \E n \in Node, o \in Outcome : DagSettle(n, o)

SpecDAG == DagInit /\ [][DagNext]_vars

\* ---------------------------------------------------------- VisualPipeline
\* connectTo(node) appends to this.outputs and to node.inputs: deps[n] holds
\* the inputs of n, and the outputs of n are the nodes that have n as input.
\* Both lists are taken in the order of the node ids.
SetToSeq(S) ==
    [i \in 1 .. Cardinality(S) |->
        CHOOSE x \in S : Cardinality({ y \in S : y < x }) = i - 1]

inputs(n) == SetToSeq(deps[n])

outputs(n) == SetToSeq({ m \in Node : n \in deps[m] })

\* The depth of nested executeNode calls beyond which the traversal is taken
\* to have no end (over an acyclic graph it stays below, see VisDepthEnough).
MaxDepth == 2 * NumNodes + 2

Frame(n) == [node |-> n, pc |-> "inputs", i |-> 1]

Top == stack[Len(stack)]

SetTop(f) == [stack EXCEPT ![Len(stack)] = f]

VisInit ==
    /\ engine = "VisualPipeline"
    /\ deps \in Graphs
    /\ unknown = {}
    /\ contextBuilder = {}
    /\ steps = << >>
    /\ Fresh(Node) /\ GraphFresh /\ ListFresh /\ RefineFresh

\* setStart(s) and execute(): throws when no start node is defined, else
\* calls executeNode(startNode, new Set(), new Map()).
VisExecute(s) ==
    /\ engine = "VisualPipeline"
    /\ run = "idle"
    /\ start' = s
    /\ IF s = 0
       THEN /\ run' = "rejected"
            /\ error' = "Error"
            /\ stack' = << >>
       ELSE /\ run' = "pending"
            /\ error' = "none"
            /\ stack' = << Frame(s) >>
    /\ UNCHANGED << outer, deps, op, calls, results, returned, executed, visRest >>

\* The stack after the innermost call has called executeNode(child) from
\* frame f: an executed child returns at once, any other gets a frame.
Called(f, child) ==
    IF child \in executed THEN SetTop(f) ELSE Append(SetTop(f), Frame(child))

\* executeNode, the loop over node.inputs: the next input is executed, and
\* after the last one the node's agent is called with the gathered inputData.
VisInputs ==
    /\ engine = "VisualPipeline"
    /\ run = "pending"
    /\ stack # << >>
    /\ Top.pc = "inputs"
    /\ LET f == Top
           ins == inputs(f.node)
       IN  IF f.i <= Len(ins)
           THEN IF ins[f.i] \notin executed /\ Len(stack) >= MaxDepth
                THEN /\ run' = "diverged"
                     /\ stack' = << >>
                     /\ UNCHANGED calls
                ELSE /\ stack' = Called([f EXCEPT !.i = f.i + 1], ins[f.i])
                     /\ UNCHANGED << run, calls >>
           ELSE /\ stack' = SetTop([f EXCEPT !.pc = "agent"])
                /\ calls' = [calls EXCEPT ![f.node] = calls[f.node] + 1]
                /\ UNCHANGED run
    /\ UNCHANGED << outer, deps, op, results, error, returned, executed, start,
                    visRest >>

\* node.execute settles with outcome o: a rejection propagates through every
\* awaiting executeNode call to execute(); otherwise result.data is stored
\* and the node is marked executed.
VisSettle(o) ==
    /\ engine = "VisualPipeline"
    /\ run = "pending"
    /\ stack # << >>
    /\ Top.pc = "agent"
    /\ op' = [op EXCEPT ![Top.node] = o]
    /\ IF o = "throw"
       THEN /\ run' = "rejected"
            /\ error' = "Error"
            /\ stack' = << >>
            /\ UNCHANGED << results, executed >>
       ELSE /\ results' = MapSet(results, Top.node, DataOf(Top.node))
            /\ executed' = executed \cup {Top.node}
            /\ stack' = SetTop([Top EXCEPT !.pc = "outputs", !.i = 1])
            /\ UNCHANGED << run, error >>
    /\ UNCHANGED << outer, deps, calls, returned, start, visRest >>

\* executeNode, the loop over node.outputs: the next output is executed, and
\* after the last one the call returns; execute() returns the results when
\* the call on the start node has returned.
VisOutputs ==
    /\ engine = "VisualPipeline"
    /\ run = "pending"
    /\ stack # << >>
    /\ Top.pc = "outputs"
    /\ LET f == Top
           outs == outputs(f.node)
       IN  IF f.i <= Len(outs)
           THEN IF outs[f.i] \notin executed /\ Len(stack) >= MaxDepth
                THEN /\ run' = "diverged"
                     /\ stack' = << >>
                     /\ UNCHANGED returned
                ELSE /\ stack' = Called([f EXCEPT !.i = f.i + 1], outs[f.i])
                     /\ UNCHANGED << run, returned >>
           ELSE /\ stack' = SubSeq(stack, 1, Len(stack) - 1)
                /\ run' = IF Len(stack) = 1 THEN "resolved" ELSE run
                /\ returned' = IF Len(stack) = 1 THEN results ELSE returned
    /\ UNCHANGED << outer, deps, op, calls, results, error, executed, start,
                    visRest >>

VisNext ==
    \/ \E s \in Node \cup {0} : VisExecute(s)
    \/ VisInputs
    \/ \E o \in Outcome : VisSettle(o)
    \/ VisOutputs

SpecVisual == VisInit /\ [][VisNext]_vars

\* An acyclic graph never reaches the depth bound.
VisDepthEnough == (engine = "VisualPipeline" /\ ~Cyclic) => run # "diverged"

\* ------------------------------------------------------ SequentialPipeline
\* The names the steps of a list carry; two steps may carry the same name.
StepNames == {"plan", "schema", "api"}

Lists(names) == UNION { [1 .. k -> names] : k \in 0 .. MaxSteps }

\* stepContext: contextBuilder(results, context) when step k has a builder,
\* else context.
SeqContext(k, res, ctx) ==
    IF k \in contextBuilder THEN Built(k, [results |-> res, context |-> ctx]) ELSE ctx

SeqInit ==
    /\ engine = "SequentialPipeline"
    /\ steps \in Lists(StepNames)
    /\ unknown = {}
    /\ contextBuilder \in Builders(1 .. Len(steps))
    /\ deps = [n \in Step |-> {}]
    /\ results = << >>
    /\ Fresh(Step) /\ GraphFresh /\ ListFresh /\ RefineFresh

\* The loop of execute is at step k: it builds the context of the step and
\* calls its agent, or returns the results after the last step.
SeqAt(k, res, ctx) ==
    IF k <= Len(steps)
    THEN /\ pos' = k
         /\ pc' = "agent"
         /\ calls' = [calls EXCEPT ![k] = calls[k] + 1]
         /\ request' = [request EXCEPT ![k] = [context |-> SeqContext(k, res, ctx)]]
         /\ run' = "pending"
         /\ UNCHANGED returned
    ELSE /\ pos' = k
         /\ pc' = "done"
         /\ run' = "resolved"
         /\ returned' = res
         /\ UNCHANGED << calls, request >>

\* execute(steps) up to the first agent call.
SeqExecute ==
    /\ engine = "SequentialPipeline"
    /\ run = "idle"
    /\ SeqAt(1, results, context)
    /\ UNCHANGED << outer, steps, promise, op, results, context, error, seqRest >>

\* Success that takes every response for a success.
SuccessAlways(o) == TRUE

\* result.success of the response a call resolved with.
Success(o) == o = "ok"

\* The agent call of the step at pos settles with outcome o: a rejection
\* leaves execute; success = false breaks out of the loop; otherwise the
\* result is pushed, context[step.name] is set and the loop goes on.
SeqSettle(o) ==
    /\ engine = "SequentialPipeline"
    /\ run = "pending"
    /\ pc = "agent"
    /\ op' = [op EXCEPT ![pos] = o]
    /\ CASE o = "throw" ->
              /\ run' = "rejected"
              /\ error' = "Error"
              /\ pc' = "done"
              /\ UNCHANGED << pos, calls, request, results, context, returned >>
         [] o # "throw" /\ ~Success(o) ->
              /\ run' = "resolved"
              /\ returned' = results
              /\ pc' = "done"
              /\ UNCHANGED << pos, calls, request, results, context, error >>
         [] o # "throw" /\ Success(o) ->
              /\ results' = Append(results, [step |-> steps[pos], data |-> DataOf(pos)])
              /\ context' = MapSet(context, steps[pos], DataOf(pos))
              /\ SeqAt(pos + 1, results', context')
              /\ UNCHANGED error
    /\ UNCHANGED << outer, steps, promise, seqRest >>

\* A context that execute would take over from the run before.
OldContext == context

\* let context = {} at the head of execute.
NewContext == EmptyMap

\* execute(steps) once more on the same pipeline and the same steps, after an
\* execute that has settled: context and results are made anew.
SeqExecuteAgain ==
    /\ engine = "SequentialPipeline"
    /\ run \in {"resolved", "rejected"}
    /\ prev.run = "idle"
    /\ prev' = LastRun
    /\ context' = NewContext
    /\ results' = << >>
    /\ op' = [k \in Step |-> "none"]
    /\ error' = "none"
    /\ IF 1 <= Len(steps)
       THEN /\ pos' = 1
            /\ pc' = "agent"
            /\ calls' = [k \in Step |-> IF k = 1 THEN 1 ELSE 0]
            /\ request' = [k \in Step |->
                              IF k = 1 THEN [context |-> SeqContext(1, results', context')]
                              ELSE EmptyMap]
            /\ run' = "pending"
            /\ returned' = EmptyMap
       ELSE /\ pos' = 1
            /\ pc' = "done"
            /\ calls' = [k \in Step |-> 0]
            /\ request' = [k \in Step |-> EmptyMap]
            /\ run' = "resolved"
            /\ returned' = results'
    /\ UNCHANGED << given, errOnly, appOnly, steps, promise, seqRest >>

SeqNext ==
    \/ SeqExecute
    \/ \E o \in Outcome : SeqSettle(o)

SpecSeq == SeqInit /\ [][SeqNext]_vars

\* -------------------------------------------------------- ParallelPipeline
ParInit ==
    /\ engine = "ParallelPipeline"
    /\ steps \in Lists(StepNames)
    /\ unknown = {}
    /\ contextBuilder = {}
    /\ deps = [n \in Step |-> {}]
    /\ results = << >>
    /\ Fresh(Step) /\ GraphFresh /\ ListFresh /\ RefineFresh

\* What executeTask(task k) resolves with once its agent call settled with o.
TaskResult(k, o) == [name |-> steps[k], result |-> DataOf(k), success |-> (o = "ok")]

\* mergeResults(results, tasks): merged[tasks[index].name] for every index in
\* turn, so that of two tasks with one name the later one stays.
mergeResults(res) ==
    [nm \in { steps[k] : k \in 1 .. Len(res) } |->
        LET last == CHOOSE k \in 1 .. Len(res) :
                        /\ steps[k] = nm
                        /\ \A j \in 1 .. Len(res) : steps[j] = nm => j <= k
        IN  [data |-> res[last].result, success |-> res[last].success]]

\* executeParallel(tasks) up to await Promise.all: executeTask is called on
\* every task, and each call runs up to its agent call.
ParExecute ==
    /\ engine = "ParallelPipeline"
    /\ run = "idle"
    /\ promise' = [k \in Step |-> IF k <= Len(steps) THEN "agent" ELSE "none"]
    /\ calls' = [k \in Step |-> IF k <= Len(steps) THEN 1 ELSE 0]
    /\ pc' = "all"
    /\ IF steps = << >>
       THEN /\ run' = "resolved"
            /\ returned' = mergeResults(<< >>)
       ELSE /\ run' = "pending"
            /\ UNCHANGED returned
    /\ UNCHANGED << outer, steps, op, results, context, error, pos, parRest >>

\* The agent call of task k settles with outcome o.  Promise.all rejects
\* with the first rejection and resolves once every executeTask resolved.
ParSettle(k, o) ==
    /\ engine = "ParallelPipeline"
    /\ promise[k] = "agent"
    /\ op' = [op EXCEPT ![k] = o]
    /\ LET p == [promise EXCEPT ![k] = IF o = "throw" THEN "rejected" ELSE "fulfilled"]
           all == [j \in 1 .. Len(steps) |-> TaskResult(j, op'[j])]
       IN  /\ promise' = p
           /\ IF run = "pending" /\ o = "throw"
              THEN /\ run' = "rejected"
                   /\ error' = "Error"
                   /\ UNCHANGED << results, returned >>
              ELSE IF run = "pending" /\ \A j \in 1 .. Len(steps) : p[j] = "fulfilled"
              THEN /\ run' = "resolved"
                   /\ results' = all
                   /\ returned' = mergeResults(all)
                   /\ UNCHANGED error
              ELSE UNCHANGED << run, error, results, returned >>
    /\ UNCHANGED << outer, steps, calls, context, pos, pc, parRest >>

ParNext ==
    \/ ParExecute
    \/ \E k \in Step, o \in Outcome : ParSettle(k, o)

SpecPar == ParInit /\ [][ParNext]_vars

\* -------------------------------------------------------------- SmartRouter
\* The keys of agentMap.
AgentNames ==
    { "Code Generator", "Schema Generator", "Code Improver", "Project Planner",
      "Terminal Agent", "GitHub Agent", "Box Designer", "Prompt Improver" }

\* this.agentMap: the agent of the client and the method registered for each
\* name.
agentMap ==
    [nm \in AgentNames |->
        CASE nm = "Code Generator" -> [agent |-> "codeGenerator", method |-> "generate"]
          [] nm = "Schema Generator" -> [agent |-> "schemaGenerator", method |-> "generate"]
          [] nm = "Code Improver" -> [agent |-> "codeImprover", method |-> "improve"]
          [] nm = "Project Planner" -> [agent |-> "projectPlanner", method |-> "plan"]
          [] nm = "Terminal Agent" -> [agent |-> "terminalAgent", method |-> "generate"]
          [] nm = "GitHub Agent" -> [agent |-> "githubAgent", method |-> "generate"]
          [] nm = "Box Designer" -> [agent |-> "boxDesigner", method |-> "design"]
          [] nm = "Prompt Improver" -> [agent |-> "promptImprover", method |-> "improve"]]

\* The entry of agentMap that route takes when it takes that of the first
\* name whatever chosenTool is.
AgentOfFirst(tool) == agentMap["Code Generator"]

\* const { agent, method } = this.agentMap[chosenAgentName].
AgentOf(tool) == agentMap[tool]

\* What toolChoice.recommend may name as chosenTool: a key of agentMap or not.
ToolNames == AgentNames \cup {"Other Tool"}

RouterInit ==
    /\ engine = "SmartRouter"
    /\ steps \in Lists({"task"})
    /\ unknown = {}
    /\ contextBuilder = {}
    /\ deps = [n \in Step |-> {}]
    /\ results = << >>
    /\ Fresh(Step) /\ GraphFresh /\ ListFresh /\ RefineFresh

\* The loop of routeWorkflow is at task k: route(task, accumulatedContext)
\* runs up to the toolChoice call, or the results are returned.
RouterAt(k, res) ==
    IF k <= Len(steps)
    THEN /\ pos' = k
         /\ pc' = "recommend"
         /\ run' = "pending"
         /\ UNCHANGED returned
    ELSE /\ pos' = k
         /\ pc' = "done"
         /\ run' = "resolved"
         /\ returned' = res

\* routeWorkflow(tasks) up to the first await.
routeWorkflow ==
    /\ engine = "SmartRouter"
    /\ run = "idle"
    /\ RouterAt(1, results)
    /\ UNCHANGED << outer, steps, promise, op, calls, request, results, context,
                    error, routerOnly, listRest >>

\* route: toolChoice.recommend settles with outcome o naming tool.  A
\* rejection leaves route with the error of the call, success = false with
\* the Error 'Routing failed'; a tool that is no key of agentMap fails the
\* destructuring with a TypeError; otherwise the mapped agent is called with
\* the task and the context route was given.
RouterRecommend(o, tool) ==
    /\ engine = "SmartRouter"
    /\ run = "pending"
    /\ pc = "recommend"
    /\ recommendation' = MapSet(recommendation, pos, o)
    /\ chosenAgentName' = IF o = "ok" THEN MapSet(chosenAgentName, pos, tool)
                          ELSE chosenAgentName
    /\ IF o # "ok" \/ tool \notin AgentNames
       THEN /\ run' = "rejected"
            /\ error' = CASE o = "throw" -> "Error"
                           [] o = "fail" -> "Routing failed"
                           [] OTHER -> "TypeError"
            /\ pc' = "done"
            /\ UNCHANGED << calls, request >>
       ELSE /\ pc' = "agent"
            /\ calls' = [calls EXCEPT ![pos] = calls[pos] + 1]
            /\ request' = [request EXCEPT ![pos] =
                              [agent |-> AgentOf(tool).agent,
                               method |-> AgentOf(tool).method,
                               context |-> context]]
            /\ UNCHANGED << run, error >>
    /\ UNCHANGED << outer, steps, promise, op, results, context, returned, pos,
                    listRest >>

\* route: the agent call settles with outcome o.  A rejection leaves route
\* and routeWorkflow; otherwise route returns result.data, whatever
\* result.success is, routeWorkflow pushes it and stores it in
\* accumulatedContext under task_<results.length>.
RouterSettle(o) ==
    /\ engine = "SmartRouter"
    /\ run = "pending"
    /\ pc = "agent"
    /\ op' = [op EXCEPT ![pos] = o]
    /\ IF o = "throw"
       THEN /\ run' = "rejected"
            /\ error' = "Error"
            /\ pc' = "done"
            /\ UNCHANGED << pos, results, context, returned >>
       ELSE /\ results' = Append(results, [task |-> pos, agentUsed |-> chosenAgentName[pos],
                                           result |-> DataOf(pos)])
            /\ context' = MapSet(context, Len(results'), DataOf(pos))
            /\ RouterAt(pos + 1, results')
            /\ UNCHANGED error
    /\ UNCHANGED << outer, steps, promise, calls, request, routerOnly, listRest >>

\* What the context object handed to the agent of task k holds now.  route
\* passes its parameter on to agent[method](task, context) and routeWorkflow
\* passes accumulatedContext itself to every route call, then assigns the
\* task_<n> keys on that same object: no copy is made at any point, so the
\* object each agent was handed is the one routeWorkflow keeps writing to.
HandedContext(k) == context

RouterNext ==
    \/ routeWorkflow
    \/ \E o \in Outcome, tool \in ToolNames : RouterRecommend(o, tool)
    \/ \E o \in Outcome : RouterSettle(o)

SpecRouter == RouterInit /\ [][RouterNext]_vars

\* ----------------------------------------------------------- RefinementLoop
\* Iteration 0 is the codeGenerator call, iterations 1 .. n the codeImprover
\* calls.
Iter == 0 .. MaxSteps

\* The code in the response of iteration k: result.data.code of the
\* generator, result.data.improvedCode of an improver.
CodeOf(k) == DataOf(k)

\* The loop condition with one improvement fewer.
MoreIterationsShort(i) == i < iterations - 1

\* for (let i = 0; i < iterations; i++), asked after the call of iteration i
\* of the history (the loop's i is one less) has been taken over.
MoreIterations(i) == i < iterations

RefineInit ==
    /\ engine = "RefinementLoop"
    /\ steps = << >>
    /\ unknown = {}
    /\ contextBuilder = {}
    /\ deps = [n \in Iter |-> {}]
    /\ results = << >>
    /\ Fresh(Iter) /\ GraphFresh /\ ListFresh /\ RefineFresh

\* refine(initialQuery, n) up to the codeGenerator call.
refine(n) ==
    /\ engine = "RefinementLoop"
    /\ run = "idle"
    /\ iterations' = n
    /\ pos' = 0
    /\ pc' = "agent"
    /\ calls' = [calls EXCEPT ![0] = 1]
    /\ request' = [request EXCEPT ![0] = [agent |-> "codeGenerator",
                                          method |-> "generate"]]
    /\ run' = "pending"
    /\ UNCHANGED << outer, steps, deps, promise, op, results, context, error,
                    returned, routerOnly, currentCode, history, dagOnly,
                    visOnly, genOnly >>

\* The call of iteration pos settles with outcome o; hasData tells whether a
\* response with success = false carries the data fields that refine reads.
\* A rejection leaves refine, and so does the TypeError of reading a field of
\* missing data; otherwise the code is taken over, whatever result.success
\* is, and the next improvement is requested or the history returned.
RefineSettle(o, hasData) ==
    /\ engine = "RefinementLoop"
    /\ run = "pending"
    /\ pc = "agent"
    /\ o = "ok" => hasData
    /\ op' = [op EXCEPT ![pos] = o]
    /\ IF o = "throw" \/ ~hasData
       THEN /\ run' = "rejected"
            /\ error' = IF o = "throw" THEN "Error" ELSE "TypeError"
            /\ pc' = "done"
            /\ UNCHANGED << pos, calls, request, currentCode, history, returned >>
       ELSE /\ currentCode' = CodeOf(pos)
            /\ history' = Append(history, [iteration |-> pos, code |-> currentCode'])
            /\ UNCHANGED error
            /\ IF MoreIterations(pos)
               THEN /\ pos' = pos + 1
                    /\ calls' = [calls EXCEPT ![pos + 1] = calls[pos + 1] + 1]
                    /\ request' = [request EXCEPT ![pos + 1] =
                                      [agent |-> "codeImprover", method |-> "improve",
                                       code |-> currentCode']]
                    /\ UNCHANGED << run, pc, returned >>
               ELSE /\ run' = "resolved"
                    /\ pc' = "done"
                    /\ returned' = [finalCode |-> currentCode', history |-> history']
                    /\ UNCHANGED << pos, calls, request >>
    /\ UNCHANGED << outer, steps, deps, promise, results, context, iterations,
                    routerOnly, dagOnly, visOnly, genOnly >>

RefineNext ==
    \/ \E n \in Iter : refine(n)
    \/ \E o \in Outcome, hasData \in BOOLEAN : RefineSettle(o, hasData)

SpecRefine == RefineInit /\ [][RefineNext]_vars

\* ------------------------------------------------------- FullStackGenerator
\* The agent calls of generate, by the name their response is bound to.
GenSteps ==
    { "plan", "schema", "api", "auth", "middleware", "improvedAPI", "frontend",
      "backendTests", "frontendTests", "integrationTests", "deployment", "cicd",
      "docs" }

\* The calls that step p of generate (Step 1/9 .. Step 9/9) awaits together.
Batch(p) ==
    CASE p = 1 -> {"plan"}
      [] p = 2 -> {"schema"}
      [] p = 3 -> {"api", "auth", "middleware"}
      [] p = 4 -> {"improvedAPI"}
      [] p = 5 -> {"frontend"}
      [] p = 6 -> {"backendTests", "frontendTests", "integrationTests"}
      [] p = 7 -> {"deployment"}
      [] p = 8 -> {"cicd"}
      [] p = 9 -> {"docs"}

\* The key of results that step p assigns.
ResultKey(p) ==
    CASE p = 1 -> "plan"
      [] p = 2 -> "schema"
      [] p = 3 -> "backend"
      [] p = 4 -> "improvedBackend"
      [] p = 5 -> "frontend"
      [] p = 6 -> "tests"
      [] p = 7 -> "deployment"
      [] p = 8 -> "cicd"
      [] p = 9 -> "documentation"

\* Steps 6 to 9 run only when their option is set.
StepEnabled(p, opts) ==
    CASE p <= 5 -> TRUE
      [] p = 6 -> opts.includeTests
      [] p \in {7, 8} -> opts.includeDeployment
      [] p = 9 -> opts.includeDocs

\* The step generate goes to after step p; 10 stands for the return.
NextStep(p, opts) ==
    IF \E q \in p + 1 .. 9 : StepEnabled(q, opts)
    THEN CHOOSE q \in p + 1 .. 9 :
             /\ StepEnabled(q, opts)
             /\ \A r \in p + 1 .. q - 1 : ~StepEnabled(r, opts)
    ELSE 10

\* The responses whose data generate reads a field of right after step p
\* (plan.data.tasks, improvedAPI.data.improvements).
ReadAfter(p) ==
    CASE p = 1 -> {"plan"}
      [] p = 4 -> {"improvedAPI"}
      [] OTHER -> {}

\* The responses whose data generate reads a field of while it builds the
\* arguments of the calls of step q (schema.data.schemaAsString,
\* api.data.code, frontend.data.code).
ReadBefore(q) ==
    CASE q = 3 -> {"schema"}
      [] q = 4 -> {"api"}
      [] q = 6 -> {"frontend"}
      [] OTHER -> {}

\* The calls of step q already made when reading a field of missing data
\* throws: the first call of step 6 precedes the read of frontend.data.code.
MadeBeforeRead(q) == IF q = 6 THEN {"backendTests"} ELSE {}

\* GenReads with the tests and the deployment read whatever the options are.
GenReadsAll(s, opts) ==
    CASE s = "plan" -> {}
      [] s = "schema" -> {"plan"}
      [] s = "api" -> {"schema", "plan"}
      [] s = "auth" -> {"schema"}
      [] s = "middleware" -> {}
      [] s = "improvedAPI" -> {"api"}
      [] s = "frontend" -> {"improvedAPI", "plan"}
      [] s = "backendTests" -> {"improvedAPI"}
      [] s = "frontendTests" -> {"frontend"}
      [] s = "integrationTests" -> {"improvedAPI", "frontend"}
      [] s = "deployment" -> {"plan"}
      [] s = "cicd" -> {"deployment", "backendTests", "frontendTests"}
      [] s = "docs" -> {"plan", "improvedAPI", "deployment"}

\* The responses whose data the arguments of call s are built from.
GenReads(s, opts) ==
    CASE s = "plan" -> {}
      [] s = "schema" -> {"plan"}
      [] s = "api" -> {"schema", "plan"}
      [] s = "auth" -> {"schema"}
      [] s = "middleware" -> {}
      [] s = "improvedAPI" -> {"api"}
      [] s = "frontend" -> {"improvedAPI", "plan"}
      [] s = "backendTests" -> {"improvedAPI"}
      [] s = "frontendTests" -> {"frontend"}
      [] s = "integrationTests" -> {"improvedAPI", "frontend"}
      [] s = "deployment" -> {"plan"}
      [] s = "cicd" -> {"deployment"} \cup
                       (IF opts.includeTests THEN {"backendTests", "frontendTests"} ELSE {})
      [] s = "docs" -> {"plan", "improvedAPI"} \cup
                       (IF opts.includeDeployment THEN {"deployment"} ELSE {})

GenInit ==
    /\ engine = "FullStackGenerator"
    /\ steps = << >>
    /\ unknown = {}
    /\ contextBuilder = {}
    /\ deps = [n \in GenSteps |-> {}]
    /\ results = EmptyMap
    /\ Fresh(GenSteps) /\ GraphFresh /\ ListFresh
    /\ iterations = 0
    /\ currentCode = -1
    /\ history = << >>
    /\ options = EmptyMap
    /\ payload = [n \in GenSteps |-> FALSE]

\* generate arrives at step q, or at the return for q = 10, with the promises
\* p, the results res and the responses' data pay: it makes the calls of the
\* step, unless reading a field of missing data throws a TypeError first.
\* request records the responses the arguments of each call were built from.
\* The object returned holds the metadata and the entries of results.
GenGoto(q, p, res, pay, opts) ==
    IF q = 10
    THEN /\ run' = "resolved"
         /\ returned' = MapSet(res, "metadata", 0)
         /\ pos' = q
         /\ promise' = p
         /\ UNCHANGED << calls, error, request >>
    ELSE LET thrown == \E s \in ReadBefore(q) : ~pay[s]
             made == IF thrown THEN MadeBeforeRead(q) ELSE Batch(q)
         IN  /\ promise' = [s \in GenSteps |-> IF s \in made THEN "agent" ELSE p[s]]
             /\ calls' = [s \in GenSteps |-> IF s \in made THEN calls[s] + 1 ELSE calls[s]]
             /\ request' = [s \in GenSteps |->
                               IF s \in made THEN [reads |-> GenReads(s, opts)]
                               ELSE request[s]]
             /\ pos' = q
             /\ run' = IF thrown THEN "rejected" ELSE "pending"
             /\ error' = IF thrown THEN "TypeError" ELSE error
             /\ UNCHANGED returned

\* generate(appDescription, options) up to the projectPlanner call.
generate(opts) ==
    /\ engine = "FullStackGenerator"
    /\ run = "idle"
    /\ options' = opts
    /\ GenGoto(1, promise, results, payload, opts)
    /\ UNCHANGED << outer, steps, deps, op, results, context, pc,
                    routerOnly, iterations, currentCode, history, payload, dagOnly,
                    visOnly >>

\* The call s settles with outcome o; hasData tells whether a response with
\* success = false carries data.  The first rejection rejects generate.  When
\* the last call of the awaited step resolves, the step's results are
\* assigned and generate goes on to the next enabled step.
GenSettle(s, o, hasData) ==
    /\ engine = "FullStackGenerator"
    /\ promise[s] = "agent"
    /\ o = "ok" => hasData
    /\ o = "throw" => ~hasData
    /\ op' = [op EXCEPT ![s] = o]
    /\ payload' = [payload EXCEPT ![s] = hasData]
    /\ LET p == [promise EXCEPT ![s] = IF o = "throw" THEN "rejected" ELSE "fulfilled"]
       IN  IF run # "pending" \/ (o # "throw" /\ \E t \in Batch(pos) : p[t] # "fulfilled")
           THEN /\ promise' = p
                /\ UNCHANGED << calls, request, results, run, error, returned, pos >>
           ELSE IF o = "throw" \/ \E t \in ReadAfter(pos) : ~payload'[t]
           THEN /\ promise' = p
                /\ run' = "rejected"
                /\ error' = IF o = "throw" THEN "Error" ELSE "TypeError"
                /\ results' = IF o = "throw" THEN results
                               ELSE MapSet(results, ResultKey(pos), pos)
                /\ UNCHANGED << calls, request, returned, pos >>
           ELSE /\ results' = MapSet(results, ResultKey(pos), pos)
                /\ GenGoto(NextStep(pos, options), p, results', payload', options)
    /\ UNCHANGED << outer, steps, deps, context, pc, routerOnly,
                    iterations, currentCode, history, options, dagOnly, visOnly >>

Options == [includeTests : BOOLEAN, includeDeployment : BOOLEAN, includeDocs : BOOLEAN]

GenNext ==
    \/ \E opts \in Options : generate(opts)
    \/ \E s \in GenSteps, o \in Outcome, hasData \in BOOLEAN : GenSettle(s, o, hasData)

SpecGen == GenInit /\ [][GenNext]_vars

\* ----------------------------------------------------------- error-handling
\* What the functions of error-handling.js leave alone.
errRest ==
    << given, prev, deps, steps, promise, request, results, context, dagOnly,
       visOnly, routerOnly, iterations, currentCode, history, genOnly, appOnly >>

\* Time passes.  A timer that is due fires before more time passes.
Tick ==
    /\ engine \in {"callWithRetry", "NetworkErrorHandling"}
    /\ run = "pending" \/ timer # -1
    /\ clock < MaxClock
    /\ timer = -1 \/ clock < timer
    /\ clock' = clock + 1
    /\ UNCHANGED << errRest, timer, aborted, maxRetries, delay, waits, pos, pc,
                    calls, op, run, error, returned >>

\* The attempts of callWithRetry.
Attempts == 1 .. MaxRetries

\* The delays callWithRetry may be given, in units of time.
Delays == {1, 2}

RetryInit ==
    /\ engine = "callWithRetry"
    /\ steps = << >>
    /\ deps = [a \in Attempts |-> {}]
    /\ unknown = {}
    /\ contextBuilder = {}
    /\ Fresh(Attempts) /\ GraphFresh /\ ListFresh /\ RefineFresh

\* The wait before the attempt that follows attempt i + 1: setTimeout(resolve,
\* delay), with the delay callWithRetry was given.
NextDelay(i, d) == d

\* callWithRetry(fn, m, d) up to the first call of fn; with m <= 0 the loop
\* body never runs and the function returns undefined.
callWithRetry(m, d) ==
    /\ engine = "callWithRetry"
    /\ run = "idle"
    /\ maxRetries' = m
    /\ delay' = d
    /\ pos' = 0
    /\ IF 0 < m
       THEN /\ pc' = "fn"
            /\ calls' = [calls EXCEPT ![1] = 1]
            /\ run' = "pending"
            /\ UNCHANGED returned
       ELSE /\ pc' = "done"
            /\ run' = "resolved"
            /\ returned' = [value |-> "undefined"]
            /\ UNCHANGED calls
    /\ UNCHANGED << errRest, clock, timer, aborted, waits, op, error >>

\* The error fn rejects with in attempt a.
ErrorOf(a) == "Error " \o ToString(a)

\* MoreAttempts that stops one attempt early.
MoreAttemptsShort(i, m) == i < m - 2

\* Iteration i of the loop is not the last one: i < maxRetries - 1.
MoreAttempts(i, m) == i < m - 1

\* The call of fn in iteration pos settles with outcome o.  A response is
\* returned whatever its success field is; a rejection is followed by a wait
\* and another attempt, or, in the last iteration, thrown to the caller.
RetrySettle(o) ==
    /\ engine = "callWithRetry"
    /\ run = "pending"
    /\ pc = "fn"
    /\ op' = [op EXCEPT ![pos + 1] = o]
    /\ IF o # "throw"
       THEN /\ run' = "resolved"
            /\ returned' = [attempt |-> pos + 1, success |-> (o = "ok")]
            /\ pc' = "done"
            /\ UNCHANGED << timer, error >>
       ELSE IF MoreAttempts(pos, maxRetries)
       THEN /\ timer' = clock + NextDelay(pos, delay)
            /\ pc' = "sleep"
            /\ UNCHANGED << run, returned, error >>
       ELSE /\ run' = "rejected"
            /\ error' = ErrorOf(pos + 1)
            /\ pc' = "done"
            /\ UNCHANGED << timer, returned >>
    /\ UNCHANGED << errRest, clock, aborted, maxRetries, delay, waits, pos, calls >>

\* The timer of the wait fires: the loop goes to the next iteration and
\* calls fn again.  waits records how long the wait has been.
RetryWake ==
    /\ engine = "callWithRetry"
    /\ pc = "sleep"
    /\ timer # -1 /\ clock >= timer
    /\ waits' = Append(waits, clock - (timer - NextDelay(pos, delay)))
    /\ timer' = -1
    /\ pos' = pos + 1
    /\ pc' = "fn"
    /\ calls' = [calls EXCEPT ![pos + 2] = calls[pos + 2] + 1]
    /\ UNCHANGED << errRest, clock, aborted, maxRetries, delay, op, run, error,
                    returned >>

RetryNext ==
    \/ \E m \in -1 .. MaxRetries, d \in Delays : callWithRetry(m, d)
    \/ \E o \in Outcome : RetrySettle(o)
    \/ RetryWake
    \/ Tick

SpecRetry == RetryInit /\ [][RetryNext]_vars

\* The 30 seconds of the timeout of example 5, in units of time.
Timeout30s == 2

\* What the request of example 5 may reject with, by the branch of the catch
\* block it is told apart in: error.name, or a word in error.message.
NetErrors == {"AbortError", "ECONNREFUSED", "ETIMEDOUT", "Error"}

\* The line the catch block of example 5 prints for the error e.
NetMessage(e) ==
    CASE e = "AbortError" -> "Request timeout - took longer than 30 seconds"
      [] e = "ECONNREFUSED" -> "Network Error: Cannot connect to Schema.ICU API"
      [] e = "ETIMEDOUT" -> "Network Error: Connection timed out"
      [] OTHER -> "Network Error"

NetInit ==
    /\ engine = "NetworkErrorHandling"
    /\ steps = << >>
    /\ deps = [a \in {1} |-> {}]
    /\ unknown = {}
    /\ contextBuilder = {}
    /\ Fresh({1}) /\ GraphFresh /\ ListFresh /\ RefineFresh

\* Example 5 up to the await: a new AbortController, a timer that aborts it
\* after 30 seconds, and the terminalAgent.generate call, which is not given
\* the controller's signal.
NetRequest ==
    /\ engine = "NetworkErrorHandling"
    /\ run = "idle"
    /\ aborted' = FALSE
    /\ timer' = clock + Timeout30s
    /\ calls' = [calls EXCEPT ![1] = 1]
    /\ pc' = "request"
    /\ run' = "pending"
    /\ UNCHANGED << errRest, clock, maxRetries, delay, waits, pos, op, error,
                    returned >>

\* The timer fires: controller.abort().  No one listens to the signal.
NetAbort ==
    /\ engine = "NetworkErrorHandling"
    /\ timer # -1 /\ clock >= timer
    /\ aborted' = TRUE
    /\ timer' = -1
    /\ UNCHANGED << errRest, clock, maxRetries, delay, waits, pos, pc, calls, op,
                    run, error, returned >>

\* The request settles with outcome o, rejecting with e when o is a
\* rejection.  A response clears the timer and reports completion within the
\* timeout; a rejection goes to the catch block, which leaves the timer set.
NetSettle(o, e) ==
    /\ engine = "NetworkErrorHandling"
    /\ run = "pending"
    /\ pc = "request"
    /\ o # "throw" => e = "Error"
    /\ op' = [op EXCEPT ![1] = o]
    /\ pc' = "done"
    /\ run' = "resolved"
    /\ IF o # "throw"
       THEN /\ timer' = -1
            /\ returned' = [message |-> "Request completed within timeout"]
       ELSE /\ returned' = [message |-> NetMessage(e)]
            /\ UNCHANGED timer
    /\ UNCHANGED << errRest, clock, aborted, maxRetries, delay, waits, pos, calls,
                    error >>

NetNext ==
    \/ NetRequest
    \/ NetAbort
    \/ \E o \in Outcome, e \in NetErrors : NetSettle(o, e)
    \/ Tick

SpecNet == NetInit /\ [][NetNext]_vars

SpecErrors == (RetryInit \/ NetInit) /\ [][RetryNext \/ NetNext]_vars

\* ------------------------------------------------- throttle, debounce, memoize
\* The calls made to a wrapper in one behaviour.
MaxCalls == 3

\* What a call of a wrapper is made with: its this and its arguments.
Args == {"a", "b"}

\* What the function wrappers leave alone.
appRest ==
    << given, prev, deps, steps, promise, op, calls, request, results, context,
       run, error, returned, dagOnly, visOnly, routerOnly, iterations,
       currentCode, history, genOnly, pos, timer, aborted, maxRetries, waits,
       authenticated, exitCode, printed >>

\* A behaviour of a wrapper, a ProjectManager or an entry point begins.
AppInit(name) ==
    /\ engine = name
    /\ steps = << >>
    /\ deps = EmptyMap
    /\ unknown = {}
    /\ contextBuilder = {}
    /\ Unstarted({}) /\ GraphFresh /\ ListFresh /\ RefineFresh

\* Time passes while a wrapper exists.  A timeout that is due fires before
\* more time passes.
WrapperTick ==
    /\ engine \in {"throttle", "debounce"}
    /\ pc # "idle"
    /\ clock < MaxClock
    /\ \A t \in timers : clock < t.due
    /\ clock' = clock + 1
    /\ UNCHANGED << appRest, pc, delay, lastCall, timers, timeoutId, immediate,
                    cache, called, invoked >>

\* Date.now() when the behaviour begins, in units of time: the time since 1970
\* is longer than every delay a wrapper is given.
Epoch == 10

\* Date.now().
Now == Epoch + clock

\* The delays throttle may be given; -1 stands for a negative delay and for
\* a delay that is not a number.
ThrottleDelays == {-1, 0, 1, 2}

ThrottleInit == AppInit("throttle") /\ authenticated = TRUE

\* throttle(fn, d): an unusable delay becomes 0, lastCall starts at 0.
throttle(d) ==
    /\ engine = "throttle"
    /\ pc = "idle"
    /\ delay' = IF d < 0 THEN 0 ELSE d
    /\ lastCall' = 0
    /\ pc' = "throttled"
    /\ UNCHANGED << appRest, clock, timers, timeoutId, immediate, cache, called,
                    invoked >>

\* ThrottleOpen without the comparison.
ThrottleOpenAlways(now, last, d) == TRUE

\* The window since the last invocation of fn is over.
ThrottleOpen(now, last, d) == now - last >= d

\* throttled(...args) with a for this and args: fn is applied, and lastCall
\* set, when the window is over; otherwise nothing is done.
throttled(a) ==
    /\ engine = "throttle"
    /\ pc = "throttled"
    /\ Len(called) < MaxCalls
    /\ called' = Append(called, [at |-> Now, args |-> a])
    /\ IF ThrottleOpen(Now, lastCall, delay)
       THEN /\ lastCall' = Now
            /\ invoked' = Append(invoked, [at |-> Now, args |-> a,
                                           call |-> Len(called) + 1, by |-> "call"])
       ELSE UNCHANGED << lastCall, invoked >>
    /\ UNCHANGED << appRest, clock, pc, delay, timers, timeoutId, immediate, cache >>

ThrottleNext ==
    \/ \E d \in ThrottleDelays : throttle(d)
    \/ \E a \in Args : throttled(a)
    \/ WrapperTick

SpecThrottle == ThrottleInit /\ [][ThrottleNext]_vars

DebounceInit == AppInit("debounce") /\ authenticated = TRUE

\* debounce(fn, d, imm): timeoutId is declared and left undefined.
debounce(d, imm) ==
    /\ engine = "debounce"
    /\ pc = "idle"
    /\ delay' = d
    /\ immediate' = imm
    /\ timeoutId' = 0
    /\ timers' = {}
    /\ pc' = "debounced"
    /\ UNCHANGED << appRest, clock, lastCall, cache, called, invoked >>

\* ClearTimeout that cancels nothing.
ClearNothing(T, id) == T

\* clearTimeout(id): the timeout with this id, if it is still set, is
\* cancelled; clearTimeout of undefined, of null or of the id of a timeout
\* that has fired does nothing.
ClearTimeout(T, id) == { t \in T : t.id # id }

\* CallNow that does not look at timeoutId.
CallNowAlways(imm, id) == imm

\* callNow: immediate && !timeoutId.
CallNow(imm, id) == imm /\ id = 0

\* debounced(...args) with a for this and args: the pending timeout is
\* cleared, a new one is set whose callback holds a, and fn is applied
\* when callNow is true.  The id of the new timeout is the number of the call.
debounced(a) ==
    /\ engine = "debounce"
    /\ pc = "debounced"
    /\ Len(called) < MaxCalls
    /\ LET id == Len(called) + 1
       IN  /\ called' = Append(called, [at |-> clock, args |-> a])
           /\ timers' = ClearTimeout(timers, timeoutId)
                           \cup {[id |-> id, due |-> clock + delay, args |-> a]}
           /\ timeoutId' = id
           /\ invoked' = IF CallNow(immediate, timeoutId)
                         THEN Append(invoked, [at |-> clock, args |-> a,
                                               call |-> id, by |-> "call"])
                         ELSE invoked
    /\ UNCHANGED << appRest, clock, pc, delay, lastCall, immediate, cache >>

\* The timeout t fires: later() sets timeoutId to null and, unless immediate
\* is set, applies fn with the this and args of the call that set t.
later(t) ==
    /\ engine = "debounce"
    /\ t \in timers
    /\ clock >= t.due
    /\ timers' = timers \ {t}
    /\ timeoutId' = 0
    /\ invoked' = IF ~immediate
                  THEN Append(invoked, [at |-> clock, args |-> t.args,
                                        call |-> t.id, by |-> "timer"])
                  ELSE invoked
    /\ UNCHANGED << appRest, clock, pc, delay, lastCall, immediate, cache, called >>

DebounceNext ==
    \/ \E d \in Delays, imm \in BOOLEAN : debounce(d, imm)
    \/ \E a \in Args : debounced(a)
    \/ \E t \in timers : later(t)
    \/ WrapperTick

SpecDebounce == DebounceInit /\ [][DebounceNext]_vars

\* The argument lists memoized is called with: [1], [2], [NaN] and [null].
MemoArgs == {"1", "2", "NaN", "null"}

\* JSON.stringify(args): NaN is written as null.
Stringify(a) ==
    CASE a = "1" -> "[1]"
      [] a = "2" -> "[2]"
      [] a = "NaN" -> "[null]"
      [] a = "null" -> "[null]"

\* What fn may return; it need not return the same for the same arguments.
Values == {"undefined", "v", "w"}

MemoInit == AppInit("memoize") /\ authenticated = TRUE

\* memoize(fn): a new, empty cache.
memoize ==
    /\ engine = "memoize"
    /\ pc = "idle"
    /\ cache' = EmptyMap
    /\ pc' = "memoized"
    /\ UNCHANGED << appRest, clock, delay, lastCall, timers, timeoutId, immediate,
                    called, invoked >>

\* CacheHas that takes a stored undefined for a missing entry.
CacheHasDefined(c, key) == key \in DOMAIN c /\ c[key] # "undefined"

\* cache.has(key).
CacheHas(c, key) == key \in DOMAIN c

\* The memoized function is called with the arguments a.  On a hit the
\* stored value is returned.  On a miss fn is applied: it returns v, which
\* is stored and returned, or, for o = "throw", it throws and nothing is
\* stored.
memoized(a, o, v) ==
    /\ engine = "memoize"
    /\ pc = "memoized"
    /\ Len(called) < MaxCalls
    /\ o \in {"ok", "throw"}
    /\ LET key == Stringify(a)
       IN  IF CacheHas(cache, key)
           THEN /\ o = "ok" /\ v = cache[key]
                /\ called' = Append(called, [args |-> a, key |-> key, ran |-> FALSE,
                                             threw |-> FALSE, value |-> cache[key]])
                /\ UNCHANGED << cache, invoked >>
           ELSE /\ o = "throw" => v = "undefined"
                /\ called' = Append(called, [args |-> a, key |-> key, ran |-> TRUE,
                                             threw |-> (o = "throw"), value |-> v])
                /\ invoked' = Append(invoked, [args |-> a, call |-> Len(called) + 1])
                /\ cache' = IF o = "throw" THEN cache ELSE MapSet(cache, key, v)
    /\ UNCHANGED << appRest, clock, pc, delay, lastCall, timers, timeoutId, immediate >>

MemoNext ==
    \/ memoize
    \/ \E a \in MemoArgs, o \in Outcome, v \in Values : memoized(a, o, v)

SpecMemo == MemoInit /\ [][MemoNext]_vars

SpecWrappers ==
    /\ ThrottleInit \/ DebounceInit \/ MemoInit
    /\ [][ThrottleNext \/ DebounceNext \/ MemoNext]_vars

\* ------------------------------------------------------------ ProjectManager
\* The method calls made on one ProjectManager in one behaviour.
MaxMethodCalls == 2

\* What the ProjectManager, the scripts and the CLI leave alone.
entryRest ==
    << given, prev, deps, steps, promise, op, calls, request, results, context,
       run, error, returned, dagOnly, visOnly, routerOnly, iterations,
       currentCode, history, genOnly, errOnly, lastCall, timers, timeoutId,
       immediate, cache, authenticated >>

Methods ==
    { "createProjectPlan", "generateFeature", "getSetupCommands",
      "generateAPISchema", "improveCode", "getGitHubWorkflow", "askQuestion",
      "designComponent", "improvePrompt", "getCodeDiff", "recommendAgent" }

\* The first argument of a method call.
PmTexts == {"t"}

\* The second argument of a method call: left out, or given.
PmSeconds == {"undefined", "x"}

\* A parameter with a default value: the default stands in for undefined.
Default(x, d) == IF x = "undefined" THEN d ELSE x

\* availableTools of recommendAgent, by name.
PmTools ==
    << "codeGenerator", "schemaGenerator", "terminalAgent", "codeImprover",
       "diffImprover", "boxDesigner", "projectPlanner", "promptImprover",
       "githubAgent" >>

\* The agent call method m makes when it is called with the first argument
\* text and the second argument second (options.technology for
\* createProjectPlan, language, os, improvements, focusAreas).
PmRequest(m, text, second) ==
    CASE m = "createProjectPlan" ->
             [agent |-> "projectPlanner", method |-> "plan", query |-> << text >>,
              options |-> [technology |-> Default(second, "Node.js"),
                           experience |-> "intermediate"]]
      [] m = "generateFeature" ->
             [agent |-> "codeGenerator", method |-> "generate", query |-> << text >>,
              options |-> [language |-> Default(second, "JavaScript")]]
      [] m = "getSetupCommands" ->
             [agent |-> "terminalAgent", method |-> "generate",
              query |-> << "Setup commands for", text, "project" >>,
              options |-> [os |-> Default(second, "windows"), shell |-> "bash"]]
      [] m = "generateAPISchema" ->
             [agent |-> "schemaGenerator", method |-> "generate",
              query |-> << text >>, options |-> EmptyMap]
      [] m = "improveCode" ->
             [agent |-> "codeImprover", method |-> "improve",
              query |-> << Default(second, "Improve this code") >>,
              options |-> [code |-> text, language |-> "JavaScript",
                           focusAreas |-> IF second = "undefined"
                                          THEN << "readability", "performance" >>
                                          ELSE << second >>]]
      [] m = "getGitHubWorkflow" ->
             [agent |-> "githubAgent", method |-> "generate", query |-> << text >>,
              options |-> EmptyMap]
      [] m = "askQuestion" ->
             [agent |-> "base", method |-> "query", query |-> << text >>,
              options |-> EmptyMap]
      [] m = "designComponent" ->
             [agent |-> "boxDesigner", method |-> "design", query |-> << text >>,
              options |-> EmptyMap]
      [] m = "improvePrompt" ->
             [agent |-> "promptImprover", method |-> "improve", query |-> << text >>,
              options |-> EmptyMap]
      [] m = "getCodeDiff" ->
             [agent |-> "diffImprover", method |-> "improve", query |-> << text >>,
              options |-> [language |-> "JavaScript",
                           focusAreas |-> IF second = "undefined"
                                          THEN << "readability", "performance" >>
                                          ELSE << second >>]]
      [] m = "recommendAgent" ->
             [agent |-> "toolChoice", method |-> "recommend", query |-> << text >>,
              options |-> [availableTools |-> PmTools]]

\* The response the agent call of method call i resolves with.
PmResponse(i, o) == [success |-> (o = "ok"), data |-> DataOf(i)]

\* PmResult that gives the data whatever success is.
PmResultData(resp) == [data |-> resp.data]

\* result.success ? result.data : result
PmResult(resp) == IF resp.success THEN [data |-> resp.data] ELSE [response |-> resp]

PmInit == AppInit("ProjectManager") /\ authenticated = TRUE

\* new ProjectManager(): the client is its only field.
ProjectManager ==
    /\ engine = "ProjectManager"
    /\ pc = "idle"
    /\ pc' = "ready"
    /\ UNCHANGED << entryRest, pos, called, invoked, exitCode, printed >>

\* A method is called: it runs up to the await of its agent call.
PmCall(m, text, second) ==
    /\ engine = "ProjectManager"
    /\ pc = "ready"
    /\ Len(called) < MaxMethodCalls
    /\ called' = Append(called, [method |-> m, text |-> text, second |-> second,
                                 state |-> "pending", op |-> "none",
                                 value |-> EmptyMap])
    /\ invoked' = Append(invoked, [call |-> Len(called) + 1,
                                   request |-> PmRequest(m, text, second)])
    /\ UNCHANGED << entryRest, pos, pc, exitCode, printed >>

\* The agent call of method call i settles with outcome o: the method
\* resolves with the data or with the whole response, or rejects.
PmSettle(i, o) ==
    /\ engine = "ProjectManager"
    /\ i \in 1 .. Len(called)
    /\ called[i].state = "pending"
    /\ called' = [called EXCEPT ![i] =
                     IF o = "throw"
                     THEN [@ EXCEPT !.state = "rejected", !.op = o]
                     ELSE [@ EXCEPT !.state = "resolved", !.op = o,
                                    !.value = PmResult(PmResponse(i, o))]]
    /\ UNCHANGED << entryRest, pos, pc, invoked, exitCode, printed >>

PmNext ==
    \/ ProjectManager
    \/ \E m \in Methods, text \in PmTexts, second \in PmSeconds : PmCall(m, text, second)
    \/ \E i \in 1 .. MaxMethodCalls, o \in Outcome : PmSettle(i, o)

SpecPm == PmInit /\ [][PmNext]_vars

\* --------------------------------------------------------------- entry points
\* isAuthenticated that is not consulted.
isAuthenticatedAlways(a) == TRUE

\* client.isAuthenticated(), for a client whose credentials are present (a)
\* or missing.
isAuthenticated(a) == a

\* Write the lines ls to the console.
ConsoleLog(ls) == printed' = printed \o ls

\* The check at the head of an entry point: without credentials the
\* message hint is printed and the process exits with status 1.
Unauthenticated(hint) ==
    /\ ~isAuthenticated(authenticated)
    /\ ConsoleLog(<< hint >>)
    /\ exitCode' = 1
    /\ pc' = "exited"
    /\ UNCHANGED << pos, called, invoked >>

\* The agent calls of main, index.js, in order.
MainScript ==
    << [agent |-> "codeGenerator", method |-> "generate"],
       [agent |-> "projectPlanner", method |-> "plan"],
       [agent |-> "terminalAgent", method |-> "generate"] >>

\* The agent calls of examples 2 to 8 of demonstrateErrorHandling, in order.
DemoScript ==
    << [agent |-> "codeGenerator", method |-> "generate"],
       [agent |-> "schemaGenerator", method |-> "generate"],
       [agent |-> "codeGenerator", method |-> "generate"],
       [agent |-> "terminalAgent", method |-> "generate"],
       [agent |-> "base", method |-> "query"],
       [agent |-> "codeGenerator", method |-> "generate"],
       [agent |-> "promptImprover", method |-> "improve"] >>

MainInit == AppInit("index.js") /\ authenticated \in BOOLEAN

DemoInit == AppInit("error-handling.js") /\ authenticated \in BOOLEAN

\* main() up to its first await.
main ==
    /\ engine = "index.js"
    /\ pc = "idle"
    /\ \/ Unauthenticated("Not authenticated. Please run: npx schema-icu setup")
       \/ /\ isAuthenticated(authenticated)
          /\ pos' = 1
          /\ pc' = "agent"
          /\ invoked' = Append(invoked, MainScript[1])
          /\ UNCHANGED << called, exitCode, printed >>
    /\ UNCHANGED entryRest

\* The agent call main awaits settles.  All three calls are in one try block:
\* a rejection ends main in the catch block.
MainSettle(o) ==
    /\ engine = "index.js"
    /\ pc = "agent"
    /\ IF o = "throw"
       THEN /\ ConsoleLog(<< "Error" >>)
            /\ pc' = "done"
            /\ UNCHANGED << pos, invoked >>
       ELSE /\ ConsoleLog(IF o = "ok" THEN << "result" >> ELSE << >>)
            /\ IF pos < Len(MainScript)
               THEN /\ pos' = pos + 1
                    /\ invoked' = Append(invoked, MainScript[pos + 1])
                    /\ UNCHANGED pc
               ELSE /\ pc' = "done"
                    /\ UNCHANGED << pos, invoked >>
    /\ UNCHANGED << entryRest, called, exitCode >>

\* demonstrateErrorHandling() up to its first await, the first attempt of
\* callWithRetry in example 2.
demonstrateErrorHandling ==
    /\ engine = "error-handling.js"
    /\ pc = "idle"
    /\ \/ Unauthenticated("Authentication Error: Not authenticated. Run: npx schema-icu setup")
       \/ /\ isAuthenticated(authenticated)
          /\ pos' = 1
          /\ pc' = "agent"
          /\ invoked' = Append(invoked, DemoScript[1])
          /\ UNCHANGED << called, exitCode, printed >>
    /\ UNCHANGED entryRest

\* The agent call demonstrateErrorHandling awaits settles.  Every example has
\* its own catch block; example 2 calls its agent again after a rejection,
\* three times at most (the wait in between is left out here).
DemoSettle(o) ==
    /\ engine = "error-handling.js"
    /\ pc = "agent"
    /\ ConsoleLog(IF o = "throw" THEN << "Error" >> ELSE << "result" >>)
    /\ IF o = "throw" /\ pos = 1 /\ Len(invoked) < 3
       THEN /\ invoked' = Append(invoked, DemoScript[1])
            /\ UNCHANGED << pos, pc >>
       ELSE IF pos < Len(DemoScript)
       THEN /\ pos' = pos + 1
            /\ invoked' = Append(invoked, DemoScript[pos + 1])
            /\ UNCHANGED pc
       ELSE /\ pc' = "done"
            /\ UNCHANGED << pos, invoked >>
    /\ UNCHANGED << entryRest, called, exitCode >>

ScriptNext ==
    \/ main
    \/ \E o \in Outcome : MainSettle(o)
    \/ demonstrateErrorHandling
    \/ \E o \in Outcome : DemoSettle(o)

\* ------------------------------------------------------------------------ CLI
\* The lines entered in one behaviour.
MaxLines == 2

\* The first words of the lines entered.
CliWords == {"/ask", "/ASK", "/code", "/improve", "/help", "/exit", "/foo", "hi"}

\* The text that may follow the first word.
CliTexts == {"yo"}

\* input.trim().split(' ') for the lines entered: the empty line, a single
\* word, and a word followed by a text.
Lines ==
    {<< >>} \cup { << w >> : w \in CliWords }
            \cup { << w, t >> : w \in CliWords, t \in CliTexts }

\* command.toLowerCase(), over the words of CliWords.
ToLowerCase(w) == IF w = "/ASK" THEN "/ask" ELSE w

\* command.startsWith('/ask'), over the words of CliWords.
StartsWithAsk(w) == w = "/ask"

\* The case of the switch that the lower-cased command c selects, by the
\* agent call it makes; "/ask" and every other word fall to the base agent.
Route(c) ==
    CASE c \in {"/help", "/h"} -> [agent |-> "none", method |-> "printHelp"]
      [] c \in {"/exit", "/quit", "/q"} -> [agent |-> "none", method |-> "exit"]
      [] c \in {"/code", "/generate"} -> [agent |-> "codeGenerator", method |-> "generate"]
      [] c = "/schema" -> [agent |-> "schemaGenerator", method |-> "generate"]
      [] c \in {"/terminal", "/cmd"} -> [agent |-> "terminalAgent", method |-> "generate"]
      [] c = "/improve" -> [agent |-> "codeImprover", method |-> "improve"]
      [] c \in {"/plan", "/project"} -> [agent |-> "projectPlanner", method |-> "plan"]
      [] c = "/prompt" -> [agent |-> "promptImprover", method |-> "improve"]
      [] c \in {"/github", "/gh"} -> [agent |-> "githubAgent", method |-> "generate"]
      [] c \in {"/box", "/design"} -> [agent |-> "boxDesigner", method |-> "design"]
      [] c \in {"/choose", "/recommend"} -> [agent |-> "toolChoice", method |-> "recommend"]
      [] OTHER -> [agent |-> "base", method |-> "query"]

\* The query of the case the line falls to: args.join(' '), or askQuery in
\* the last case.  A text is held as the list of its words.
QueryOf(line) ==
    IF Route(ToLowerCase(Head(line))).agent = "base"
    THEN IF StartsWithAsk(Head(line)) THEN Tail(line) ELSE line
    ELSE Tail(line)

\* The agent call the case makes with the query q: /improve passes a fixed
\* query and q as the code; every other case passes q as the query.
CliRequest(r, q) ==
    IF r.agent = "codeImprover"
    THEN [agent |-> r.agent, method |-> r.method,
          query |-> << "Improve this code" >>, code |-> q]
    ELSE [agent |-> r.agent, method |-> r.method, query |-> q, code |-> << >>]

CliInit == AppInit("cli.js") /\ authenticated \in BOOLEAN

\* cli.js is loaded: the check of the credentials, then start(), which
\* prints the banner and the help and shows the prompt.
CliStart ==
    /\ engine = "cli.js"
    /\ pc = "idle"
    /\ \/ Unauthenticated("Not authenticated. Please run: npx schema-icu setup")
       \/ /\ isAuthenticated(authenticated)
          /\ ConsoleLog(<< "banner", "help", "prompt" >>)
          /\ pc' = "prompt"
          /\ UNCHANGED << pos, called, invoked, exitCode >>
    /\ UNCHANGED entryRest

\* A line is entered: handleCommand(line) up to its first await or, when it
\* makes no agent call, to its end and the rl.prompt() that follows it.
handleCommand(line) ==
    /\ engine = "cli.js"
    /\ pc = "prompt"
    /\ Len(called) < MaxLines
    /\ IF line = << >>
       THEN /\ called' = Append(called, [line |-> line, state |-> "done", op |-> "none"])
            /\ ConsoleLog(<< "prompt" >>)
            /\ UNCHANGED << pc, invoked, exitCode >>
       ELSE LET r == Route(ToLowerCase(Head(line)))
                q == QueryOf(line)
            IN  IF r.method = "printHelp"
                THEN /\ called' = Append(called, [line |-> line, state |-> "done", op |-> "none"])
                     /\ ConsoleLog(<< "help", "", "prompt" >>)
                     /\ UNCHANGED << pc, invoked, exitCode >>
                ELSE IF r.method = "exit"
                THEN /\ called' = Append(called, [line |-> line, state |-> "done", op |-> "none"])
                     /\ ConsoleLog(<< "Goodbye" >>)
                     /\ exitCode' = 0
                     /\ pc' = "exited"
                     /\ UNCHANGED invoked
                ELSE IF q = << >>
                THEN /\ called' = Append(called, [line |-> line, state |-> "done", op |-> "none"])
                     /\ ConsoleLog(<< "Usage", "", "prompt" >>)
                     /\ UNCHANGED << pc, invoked, exitCode >>
                ELSE /\ called' = Append(called, [line |-> line, state |-> "pending",
                                                  op |-> "none"])
                     /\ ConsoleLog(<< "working" >>)
                     /\ invoked' = Append(invoked, [call |-> Len(called) + 1,
                                                    request |-> CliRequest(r, q)])
                     /\ UNCHANGED << pc, exitCode >>
    /\ UNCHANGED << entryRest, pos >>

\* A handleCommand whose catch clause catches nothing.
CaughtNever(o) == FALSE

\* try { ... } catch (error) in handleCommand: the try block encloses the
\* switch and with it every agent call, so the rejection of any of them
\* reaches the catch clause.
Caught(o) == o = "throw"

\* The agent call of line i settles: the result is printed when success is
\* true, nothing when it is false, and the error message when the call
\* rejects and the rejection is caught; then the empty line, and
\* rl.prompt().  A rejection that left handleCommand would be an unhandled
\* rejection of the line listener, which ends the process with status 1.
CliSettle(i, o) ==
    /\ engine = "cli.js"
    /\ pc = "prompt"
    /\ i \in 1 .. Len(called)
    /\ called[i].state = "pending"
    /\ called' = [called EXCEPT ![i] = [@ EXCEPT !.state = "done", !.op = o]]
    /\ IF o = "throw" /\ ~Caught(o)
       THEN /\ exitCode' = 1
            /\ pc' = "exited"
            /\ UNCHANGED printed
       ELSE /\ ConsoleLog(CASE o = "ok" -> << "result", "", "prompt" >>
                          [] o = "fail" -> << "", "prompt" >>
                          [] o = "throw" -> << "Error", "", "prompt" >>)
            /\ UNCHANGED << pc, exitCode >>
    /\ UNCHANGED << entryRest, pos, invoked >>

\* The input ends, or Ctrl+C is pressed: the process exits with status 0.
CliClose ==
    /\ engine = "cli.js"
    /\ pc = "prompt"
    /\ ConsoleLog(<< "Goodbye" >>)
    /\ exitCode' = 0
    /\ pc' = "exited"
    /\ UNCHANGED << entryRest, pos, called, invoked >>

CliNext ==
    \/ CliStart
    \/ \E line \in Lines : handleCommand(line)
    \/ \E i \in 1 .. MaxLines, o \in Outcome : CliSettle(i, o)
    \/ CliClose

SpecCli == CliInit /\ [][CliNext]_vars

\* The entry points that check the credentials.
SpecEntry ==
    /\ CliInit \/ MainInit \/ DemoInit
    /\ [][CliNext \/ ScriptNext]_vars

\* ---------------------------------------------------------- specifications
SpecGraph == (DagInit \/ VisInit) /\ [][DagNext \/ VisNext]_vars

\* Two runs in a row on one executor: of DAGExecutor over graphs whose
\* dependency ids are all known and whose nodes have no contextBuilder, and
\* of SequentialPipeline.
AgainInit == (DagInit /\ unknown = {} /\ contextBuilder = {}) \/ SeqInit

AgainNext == DagNext \/ DagExecuteAgain \/ SeqNext \/ SeqExecuteAgain

SpecAgain == AgainInit /\ [][AgainNext]_vars

\* The two executors whose steps may carry a contextBuilder.
SpecContext == (DagInit \/ SeqInit) /\ [][DagNext \/ SeqNext]_vars

SpecRuns ==
    /\ SeqInit \/ ParInit \/ RouterInit \/ RefineInit
    /\ [][SeqNext \/ ParNext \/ RouterNext \/ RefineNext]_vars

Init ==
    \/ DagInit \/ VisInit \/ SeqInit \/ ParInit \/ RouterInit \/ RefineInit \/ GenInit
    \/ RetryInit \/ NetInit
    \/ ThrottleInit \/ DebounceInit \/ MemoInit
    \/ PmInit \/ MainInit \/ DemoInit \/ CliInit

Next ==
    \/ DagNext \/ VisNext \/ SeqNext \/ ParNext \/ RouterNext \/ RefineNext \/ GenNext
    \/ DagExecuteAgain \/ SeqExecuteAgain
    \/ RetryNext \/ NetNext
    \/ ThrottleNext \/ DebounceNext \/ MemoNext
    \/ PmNext \/ ScriptNext \/ CliNext

Spec == Init /\ [][Next]_vars

\* ------------------------------------------------------------------ claims
\* The operation of a step failed: it resolved with success = false or its
\* promise rejected.
Failure(o) == o \in {"fail", "throw"}

\* The state of node n in the words of the specification.  The code keeps no
\* Skipped mark: a node that was never started counts as Skipped as soon as
\* a node it depends on has failed.
StepState(n) ==
    IF calls[n] > 0 /\ op[n] = "none" THEN "Running"
    ELSE IF op[n] = "ok" THEN "Completed"
    ELSE IF Failure(op[n]) THEN "Failed"
    ELSE IF \E d \in TransDeps(n) : Failure(op[d]) THEN "Skipped"
    ELSE "Pending"

\* The steps of a list run.
Listed == 1 .. Len(steps)

\* No two steps of the list carry the same name.
NoDup == \A j, k \in Listed : steps[j] = steps[k] => j = k

\* No agent call is in flight.
Quiet == \A k \in DOMAIN calls : calls[k] > 0 => op[k] # "none"

\* C1: when execute(dag) on an acyclic graph has resolved, every node is
\* Completed, Failed or Skipped; none is left Pending or Running.
RunLeavesNoStepUnfinished ==
    (engine = "DAGExecutor" /\ entry = 0 /\ ~Cyclic /\ run = "resolved")
        => \A n \in Node : StepState(n) \in {"Completed", "Failed", "Skipped"}

\* C2: a node whose agent has been called has the result of every one of its
\* dependencies stored: in DAGExecutor each dependency is in completed and in
\* results, in VisualPipeline each input is in executed and in results.
DependenciesStoredBeforeCall ==
    \A n \in Node : calls[n] > 0 =>
        /\ deps[n] \subseteq DOMAIN results
        /\ engine = "DAGExecutor" => deps[n] \subseteq completed
        /\ engine = "VisualPipeline" => deps[n] \subseteq executed

\* A DAGExecutor node with two dependencies has had its agent called.
JoinNodeCalled ==
    /\ engine = "DAGExecutor"
    /\ \E n \in Node : Cardinality(deps[n]) >= 2 /\ calls[n] > 0

\* C3: once the run has resolved, a node that depends, directly or
\* transitively, on a node whose operation failed was never invoked.
DependentsOfFailedNeverRun ==
    (engine = "DAGExecutor" /\ run = "resolved") =>
        \A a, b \in Node : (a \in TransDeps(b) /\ Failure(op[a])) => calls[b] = 0

\* C4: once every task of executeParallel has settled, the result of each
\* task that succeeded has been returned to the caller, whatever became of
\* the other tasks.
UnrelatedBranchesReturned ==
    (engine = "ParallelPipeline" /\ NoDup /\ run # "idle" /\ Quiet) =>
        \A k \in Listed : op[k] = "ok" =>
            /\ run = "resolved"
            /\ steps[k] \in DOMAIN returned
            /\ returned[steps[k]] = [data |-> DataOf(k), success |-> TRUE]

\* C5: a run in which the operation of a step failed does not reject.
RunNeverRejectsOnStepFailure ==
    (\E k \in DOMAIN op : Failure(op[k])) => run # "rejected"

\* C6: over a graph with a dependency cycle no agent is ever invoked, and a
\* run that was asked for has been rejected with CycleError.
CycleRejectedBeforeAnyCall ==
    Cyclic =>
        /\ \A n \in Node : calls[n] = 0
        /\ run # "idle" => (run = "rejected" /\ error = "CycleError")

\* C7: within one run the agent of each node is invoked at most once.
AgentInvokedAtMostOnce == \A n \in Node : calls[n] <= 1

\* C8: during execute(dag) on an acyclic graph, a node whose dependencies
\* have all completed successfully has been launched.
EligibleStepIsLaunched ==
    (engine = "DAGExecutor" /\ entry = 0 /\ ~Cyclic /\ run # "idle") =>
        \A n \in Node : (\A d \in deps[n] : op[d] = "ok") => calls[n] > 0

\* C8, in FullStackGenerator.generate: while generate is pending, a call of
\* an enabled step whose arguments are built from responses that have all
\* arrived successfully has been made.
GenEligibleStepIsLaunched ==
    (engine = "FullStackGenerator" /\ run = "pending") =>
        \A p \in 1 .. 9 : StepEnabled(p, options) =>
            \A s \in Batch(p) :
                (\A d \in GenReads(s, options) : op[d] = "ok") => calls[s] > 0

\* C9: a slot of the accumulated context, once written, is neither removed
\* nor overwritten with another value.
OutputsAppendOnly ==
    [][\A k \in DOMAIN context : k \in DOMAIN context' /\ context'[k] = context[k]]_vars

\* What became of step k of a list run that has settled: it ran and
\* succeeded, it ran and failed, or it never ran.
Actual(k) ==
    IF op[k] = "ok" THEN "Completed"
    ELSE IF Failure(op[k]) THEN "Failed"
    ELSE "Skipped"

\* What the value handed to the caller tells about step k.  A rejected run
\* hands over no result.  The array of SequentialPipeline.execute holds the
\* successful steps in order, so the step after them is the one that failed;
\* the object of mergeResults holds the success flag under the task's name.
Shown(k) ==
    IF run # "resolved" THEN "nothing"
    ELSE IF engine = "SequentialPipeline"
         THEN IF k <= Len(returned) THEN "Completed"
              ELSE IF k = Len(returned) + 1 THEN "Failed"
              ELSE "Skipped"
    ELSE IF returned[steps[k]].success THEN "Completed"
    ELSE "Failed"

\* C10: once a run has settled, what its result tells about each step is
\* what became of the step: Completed, Failed and Skipped are told apart.
StatusReadableFromResult ==
    (engine \in {"SequentialPipeline", "ParallelPipeline"}
        /\ run \in {"resolved", "rejected"} /\ Quiet)
        => \A k \in Listed : Shown(k) = Actual(k)

\* The results array of SequentialPipeline.execute once exactly the first n
\* steps have succeeded.
ExpectedResults(n) == [j \in 1 .. n |-> [step |-> steps[j], data |-> DataOf(j)]]

\* The context of SequentialPipeline.execute once exactly the first n steps
\* have succeeded: under each name the data of the last of them with it.
ExpectedContext(n) ==
    [nm \in { steps[j] : j \in 1 .. n } |->
        DataOf(CHOOSE j \in 1 .. n :
                  /\ steps[j] = nm
                  /\ \A i \in 1 .. n : steps[i] = nm => i <= j)]

\* The steps of the current run that have succeeded.
Succeeded == { k \in DOMAIN op : op[k] = "ok" }

\* C11: in the second of two runs on one executor, what the run has stored
\* is determined by the outcomes of its own agent calls (nothing the first
\* run stored is there), and a second run whose calls settle as those of the
\* first run did settles as the first run did, with the same result.
SecondRunIndependent ==
    prev.run # "idle" =>
        /\ engine = "SequentialPipeline" =>
              /\ results = ExpectedResults(Cardinality(Succeeded))
              /\ context = ExpectedContext(Cardinality(Succeeded))
        /\ engine = "DAGExecutor" =>
              /\ DOMAIN results = { n \in Node : op[n] \in {"ok", "fail"} }
              /\ completed = DOMAIN results
        /\ (run \in {"resolved", "rejected"} /\ op = prev.op) =>
              /\ run = prev.run
              /\ error = prev.error
              /\ returned = prev.returned

\* A second SequentialPipeline run has resolved with fewer results than the
\* first run, which completed at least two steps.
SecondRunGaveLess ==
    /\ engine = "SequentialPipeline"
    /\ prev.run = "resolved"
    /\ Len(prev.returned) >= 2
    /\ run = "resolved"
    /\ Len(returned) = 1

\* C12: once the 30 seconds of the timer of example 5 have passed, the
\* caller is no longer waiting for the request.
CallerStopsWaitingAtTimeout ==
    (engine = "NetworkErrorHandling" /\ aborted) => pc # "request"

\* C16: of the waits of one callWithRetry call, each is longer than the one
\* before it.
BackoffGrows ==
    engine = "callWithRetry" =>
        \A j \in 2 .. Len(waits) : waits[j] > waits[j - 1]

\* C13: over a graph in which a node lists a dependency id that no node has,
\* no agent is ever invoked, and a run that was asked for has been rejected
\* with UnknownDependencyError.
UnknownDependencyRejected ==
    (engine = "DAGExecutor" /\ unknown # {}) =>
        /\ \A n \in Node : calls[n] = 0
        /\ run # "idle" => (run = "rejected" /\ error = "UnknownDependencyError")

\* C14: over a list in which two steps share a name, no agent is ever
\* invoked, and a run that was asked for has been rejected with
\* DuplicateStepError.
DuplicateNamesRejected ==
    (engine \in {"SequentialPipeline", "ParallelPipeline"} /\ ~NoDup) =>
        /\ \A k \in Step : calls[k] = 0
        /\ run # "idle" => (run = "rejected" /\ error = "DuplicateStepError")

\* C15: the context a step's agent was called with is what the step's
\* builder makes of the stored outputs of the steps completed before it, or
\* those outputs themselves when the step has no builder.  DAGExecutor: the
\* results of the declared dependencies, all of them in completed;
\* SequentialPipeline: the results and the context of the steps before.
ContextBuiltFromCompleted ==
    \A n \in DOMAIN calls : calls[n] > 0 =>
        /\ engine = "DAGExecutor" =>
              LET input == [d \in deps[n] |-> DataOf(d)]
              IN  /\ deps[n] \subseteq completed
                  /\ request[n].context =
                        IF n \in contextBuilder THEN Built(n, input) ELSE input
        /\ engine = "SequentialPipeline" =>
              LET res == ExpectedResults(n - 1)
                  ctx == ExpectedContext(n - 1)
              IN  /\ \A j \in 1 .. n - 1 : op[j] = "ok"
                  /\ request[n].context =
                        IF n \in contextBuilder
                        THEN Built(n, [results |-> res, context |-> ctx])
                        ELSE ctx

\* A DAGExecutor node with a contextBuilder and two dependencies, and a
\* third SequentialPipeline step with a contextBuilder, can be called.
BuilderOfJoinCalled ==
    \/ /\ engine = "DAGExecutor"
       /\ \E n \in contextBuilder : Cardinality(deps[n]) >= 2 /\ calls[n] > 0
    \/ /\ engine = "SequentialPipeline"
       /\ 3 \in contextBuilder
       /\ calls[3] > 0

\* C17: while the agent call of step k of SequentialPipeline.execute is in
\* flight, every earlier step has been called once and has succeeded, no
\* later step has been called, results holds the k - 1 earlier steps in
\* order, and context holds the data of each earlier step under its name.
SeqStepsInOrder ==
    (engine = "SequentialPipeline" /\ run = "pending" /\ pc = "agent") =>
        /\ \A j \in 1 .. pos - 1 : calls[j] = 1 /\ op[j] = "ok"
        /\ \A j \in Step : j > pos => calls[j] = 0
        /\ results = ExpectedResults(pos - 1)
        /\ \A j \in 1 .. pos - 1 :
              steps[j] \in DOMAIN context /\ context[steps[j]] = DataOf(j)

\* C18: once executeParallel has been called every task's agent has been
\* called, and when it has resolved, in whatever order the calls settled,
\* the merged result holds under each task's name the data and the success
\* flag of that task.
ParMergesByTask ==
    engine = "ParallelPipeline" =>
        /\ run # "idle" => \A k \in Listed : calls[k] = 1
        /\ run = "resolved" =>
              \A k \in Listed :
                  /\ steps[k] \in DOMAIN returned
                  /\ returned[steps[k]] = [data |-> DataOf(k), success |-> (op[k] = "ok")]

\* C19: route calls at most one agent per task; the agent and the method it
\* calls are those agentMap holds for the chosenTool of a successful
\* recommendation; every task whose recommendation named a key of agentMap
\* has had that agent called, and every result routeWorkflow collected names
\* it; a recommendation with success = false rejects with 'Routing failed'
\* and no agent is called for the task.
RouteExecutesChosenAgent ==
    engine = "SmartRouter" =>
        /\ \A k \in Step :
              /\ calls[k] <= 1
              /\ calls[k] = 1 =>
                    /\ k \in DOMAIN recommendation /\ recommendation[k] = "ok"
                    /\ chosenAgentName[k] \in AgentNames
                    /\ request[k].agent = agentMap[chosenAgentName[k]].agent
                    /\ request[k].method = agentMap[chosenAgentName[k]].method
              /\ (k \in DOMAIN chosenAgentName /\ chosenAgentName[k] \in AgentNames)
                    => calls[k] = 1
              /\ (k \in DOMAIN recommendation /\ recommendation[k] = "fail") =>
                    /\ calls[k] = 0
                    /\ run = "rejected"
                    /\ error = "Routing failed"
        /\ \A i \in 1 .. Len(results) :
              /\ calls[i] = 1
              /\ results[i].agentUsed = chosenAgentName[i]

\* The second task of a workflow was routed to the Code Improver, whose
\* call has settled.
RoutedToImprover ==
    /\ engine = "SmartRouter"
    /\ calls[2] = 1
    /\ chosenAgentName[2] = "Code Improver"
    /\ request[2].method = "improve"
    /\ op[2] # "none"

\* C20: refine makes each call at most once and in order: iteration 0 is
\* the codeGenerator call, iteration i >= 1 a codeImprover call made after
\* iteration i - 1 has settled and given the code of iteration i - 1; when
\* refine(query, n) has resolved it has made exactly the calls 0 .. n, the
\* history holds the n + 1 entries 0 .. n in order, and finalCode is the code
\* of the last entry.
RefineCallsInOrder ==
    engine = "RefinementLoop" =>
        /\ \A i \in Iter :
              /\ calls[i] <= 1
              /\ (calls[i] = 1 /\ i = 0) =>
                    request[i] = [agent |-> "codeGenerator", method |-> "generate"]
              /\ (calls[i] = 1 /\ i > 0) =>
                    /\ i <= iterations
                    /\ op[i - 1] \in {"ok", "fail"}
                    /\ request[i] = [agent |-> "codeImprover", method |-> "improve",
                                     code |-> CodeOf(i - 1)]
        /\ run = "resolved" =>
              /\ calls = [i \in Iter |-> IF i <= iterations THEN 1 ELSE 0]
              /\ returned.history =
                    [j \in 1 .. iterations + 1 |-> [iteration |-> j - 1, code |-> CodeOf(j - 1)]]
              /\ returned.finalCode = returned.history[iterations + 1].code

\* refine(query, 2) has resolved.
RefinedTwice ==
    /\ engine = "RefinementLoop"
    /\ iterations = 2
    /\ run = "resolved"

\* The calls of the wrapper that applied fn.
InvokedCalls == { invoked[j].call : j \in 1 .. Len(invoked) }

DebounceTrailingEdge ==
    (engine = "debounce" /\ pc = "debounced" /\ ~immediate) =>
        /\ Cardinality(timers) <= 1
        /\ \A j \in 1 .. Len(invoked) :
               LET v == invoked[j]
               IN  /\ v.by = "timer"
                   /\ v.call \in 1 .. Len(called)
                   /\ v.args = called[v.call].args
                   /\ v.at = called[v.call].at + delay
                   /\ v.call < Len(called) => called[v.call + 1].at >= v.at
                   /\ j > 1 => invoked[j - 1].call < v.call
        /\ \A i \in 1 .. Len(called) :
               /\ (i < Len(called) /\ called[i + 1].at - called[i].at < delay)
                      => i \notin InvokedCalls
               /\ (i < Len(called) /\ called[i + 1].at - called[i].at > delay)
                      => i \in InvokedCalls
               /\ i = Len(called) =>
                      \/ i \in InvokedCalls /\ timers = {}
                      \/ /\ i \notin InvokedCalls
                         /\ timers = {[id |-> i, due |-> called[i].at + delay,
                                       args |-> called[i].args]}
                         /\ clock <= called[i].at + delay

\* C22 witness: two calls less than delay apart gave one application of fn,
\* with the arguments of the second call.
DebouncedBurstOfTwo ==
    /\ engine = "debounce"
    /\ ~immediate
    /\ Len(called) = 2
    /\ called[1].at < called[2].at
    /\ called[1].args # called[2].args
    /\ Len(invoked) = 1
    /\ invoked[1].args = called[2].args

\* C23: with immediate = true fn is applied only from inside a call of
\* the wrapper, with that call's this and arguments, and never by a
\* timeout; the call is the first one or comes at least delay after the call
\* before it; a call that comes less than delay after the call before it
\* applies nothing; the first call, and every call that comes more than delay
\* after the call before it, applies fn.
DebounceLeadingEdge ==
    (engine = "debounce" /\ pc = "debounced" /\ immediate) =>
        /\ \A j \in 1 .. Len(invoked) :
               LET v == invoked[j]
               IN  /\ v.by = "call"
                   /\ v.call \in 1 .. Len(called)
                   /\ called[v.call] = [at |-> v.at, args |-> v.args]
                   /\ v.call > 1 => v.at - called[v.call - 1].at >= delay
                   /\ j > 1 => invoked[j - 1].call < v.call
        /\ \A i \in 1 .. Len(called) :
               /\ (i > 1 /\ called[i].at - called[i - 1].at < delay)
                      => i \notin InvokedCalls
               /\ (i = 1 \/ called[i].at - called[i - 1].at > delay)
                      => i \in InvokedCalls

\* C23 witness: three calls, the second right after the first and the third
\* after a pause; the first and the third applied fn, and the timeouts that
\* fired applied nothing.
DebounceLedTwice ==
    /\ engine = "debounce"
    /\ immediate
    /\ Len(called) = 3
    /\ InvokedCalls = {1, 3}
    /\ Len(invoked) = 2

\* C24: when a call of the memoized function has applied fn and fn has
\* returned, every later call with the same key applies nothing and returns
\* the value of that call; the cache holds, for every such key, the value fn
\* returned first, and holds nothing else; fn is applied only by the calls
\* that missed the cache.
MemoOncePerKey ==
    (engine = "memoize" /\ pc = "memoized") =>
        /\ \A i \in 1 .. Len(called), j \in 1 .. Len(called) :
               (i < j /\ called[i].key = called[j].key
                      /\ called[i].ran /\ ~called[i].threw)
                   => /\ ~called[j].ran
                      /\ ~called[j].threw
                      /\ called[j].value = called[i].value
        /\ \A i \in 1 .. Len(called) :
               (called[i].ran /\ ~called[i].threw)
                   => /\ called[i].key \in DOMAIN cache
                      /\ cache[called[i].key] = called[i].value
        /\ \A k \in DOMAIN cache :
               \E i \in 1 .. Len(called) :
                   called[i].key = k /\ called[i].ran /\ ~called[i].threw
        /\ InvokedCalls = { i \in 1 .. Len(called) : called[i].ran }
        /\ Len(invoked) = Cardinality(InvokedCalls)

\* C24 witness: fn threw for a key and was applied again for it; it then
\* returned undefined for [NaN], and a call with [null], which has the same
\* key, got the stored undefined without fn being applied.
MemoHitOnStoredUndefined ==
    /\ engine = "memoize"
    /\ Len(called) = 3
    /\ called[1].threw
    /\ called[2].args = "NaN" /\ called[2].ran /\ called[2].value = "undefined"
    /\ called[1].key = called[2].key
    /\ called[3].args = "null" /\ ~called[3].ran /\ called[3].value = "undefined"

\* The commands printHelp lists with a query, and their aliases in the switch.
Recognised ==
    { "/code", "/generate", "/schema", "/terminal", "/cmd", "/improve", "/plan",
      "/project", "/prompt", "/github", "/gh", "/box", "/design", "/choose",
      "/recommend", "/ask" }

\* The text of the user that an agent call of the CLI carries: the code of
\* /improve, the query of every other call.
Carried(req) == IF req.agent = "codeImprover" THEN req.code ELSE req.query

\* C25: every agent call of the CLI carries, for a line whose first word
\* is a recognised command in any case of letters, the text after that word,
\* and, for a line that does not begin with a slash, the whole trimmed line,
\* sent to the base agent.
QueryIsTextAfterCommand ==
    engine = "cli.js" =>
        \A j \in 1 .. Len(invoked) :
            LET line == called[invoked[j].call].line
                req == invoked[j].request
            IN  IF ToLowerCase(Head(line)) \in Recognised
                THEN Carried(req) = Tail(line)
                ELSE Head(line) = "hi" =>
                         (req.agent = "base" /\ req.query = line)

\* The messages that tell the user to run the setup.
SetupHints ==
    { "Not authenticated. Please run: npx schema-icu setup",
      "Authentication Error: Not authenticated. Run: npx schema-icu setup" }

\* C26: when client.isAuthenticated() is false, cli.js, index.js and
\* error-handling.js make no agent call; once started they have printed the
\* setup hint, and nothing else, and have exited with status 1.
NoRequestWithoutCredentials ==
    (engine \in {"cli.js", "index.js", "error-handling.js"} /\ ~authenticated) =>
        /\ invoked = << >>
        /\ called = << >>
        /\ pc \in {"idle", "exited"}
        /\ pc = "exited" =>
               /\ exitCode = 1
               /\ Len(printed) = 1
               /\ printed[1] \in SetupHints

\* C26 witness: error-handling.js was run without credentials and has exited
\* with status 1.
ExitedForMissingCredentials ==
    /\ engine = "error-handling.js"
    /\ ~authenticated
    /\ pc = "exited"
    /\ exitCode = 1

\* The agent of the client that each method of ProjectManager is about.
OwnAgent(m) ==
    CASE m = "createProjectPlan" -> "projectPlanner"
      [] m = "generateFeature" -> "codeGenerator"
      [] m = "getSetupCommands" -> "terminalAgent"
      [] m = "generateAPISchema" -> "schemaGenerator"
      [] m = "improveCode" -> "codeImprover"
      [] m = "getGitHubWorkflow" -> "githubAgent"
      [] m = "askQuestion" -> "base"
      [] m = "designComponent" -> "boxDesigner"
      [] m = "improvePrompt" -> "promptImprover"
      [] m = "getCodeDiff" -> "diffImprover"
      [] m = "recommendAgent" -> "toolChoice"

\* The request holds the text x, in its query or as the code it is about.
Holds(req, x) ==
    \/ \E k \in 1 .. Len(req.query) : req.query[k] = x
    \/ ("code" \in DOMAIN req.options /\ req.options.code = x)

\* C27: every method call on a ProjectManager has made exactly one agent
\* call, to its own agent, holding the caller's first argument, and the
\* same call whatever calls were made before it; generateFeature passes its
\* language argument, 'JavaScript' when it is left out; a call whose response
\* has success = true resolved to the response's data, and one whose response
\* has success = false resolved to the whole response.
ProjectManagerForwards ==
    engine = "ProjectManager" =>
        /\ Len(invoked) = Len(called)
        /\ \A i \in 1 .. Len(called) :
               LET c == called[i]
                   r == invoked[i].request
               IN  /\ invoked[i].call = i
                   /\ r.agent = OwnAgent(c.method)
                   /\ Holds(r, c.text)
                   /\ r = PmRequest(c.method, c.text, c.second)
                   /\ c.method = "generateFeature" =>
                          /\ r.query = << c.text >>
                          /\ r.options.language =
                                 (IF c.second = "undefined" THEN "JavaScript"
                                  ELSE c.second)
                   /\ c.op = "ok" =>
                          (c.state = "resolved" /\ c.value = [data |-> DataOf(i)])
                   /\ c.op = "fail" =>
                          /\ c.state = "resolved"
                          /\ c.value = [response |-> [success |-> FALSE,
                                                      data |-> DataOf(i)]]
                   /\ c.op = "throw" => c.state = "rejected"

\* C27 witness: createProjectPlan resolved to the data of its response, and
\* a generateFeature call without a language, made after it, resolved to its
\* whole response, which has success = false.
PlannedThenGenerated ==
    /\ engine = "ProjectManager"
    /\ Len(called) = 2
    /\ called[1].method = "createProjectPlan" /\ called[1].op = "ok"
    /\ called[2].method = "generateFeature" /\ called[2].second = "undefined"
    /\ called[2].op = "fail"

\* The step of generate, 1 to 9, that makes the call s.
StepOf(s) == CHOOSE p \in 1 .. 9 : s \in Batch(p)

\* The steps of generate that have been run to their end.
StepsRun == { p \in 1 .. 9 : ResultKey(p) \in DOMAIN results }

\* C28: whatever the options are, the arguments of every call generate has
\* made were built only from responses of steps that the options enable and
\* that have been run; the CI/CD call is made only after the deployment step
\* has been run, and a run that returns has run both of them or neither; and
\* the object returned has, beside the metadata, the key of every step that
\* was run and no other, which are the steps the options enable.
GenReadsOnlyWhatRan ==
    (engine = "FullStackGenerator" /\ run # "idle") =>
        /\ \A s \in GenSteps : calls[s] > 0 =>
               /\ StepEnabled(StepOf(s), options)
               /\ \A d \in request[s].reads :
                      /\ StepEnabled(StepOf(d), options)
                      /\ StepOf(d) \in StepsRun
                      /\ op[d] \in {"ok", "fail"}
        /\ calls["cicd"] > 0 => 7 \in StepsRun
        /\ run = "resolved" =>
               /\ (8 \in StepsRun) <=> (7 \in StepsRun)
               /\ DOMAIN returned = {"metadata"} \cup { ResultKey(p) : p \in StepsRun }
               /\ StepsRun = { p \in 1 .. 9 : StepEnabled(p, options) }
               /\ \A p \in 1 .. 9 : \A s \in Batch(p) :
                      calls[s] = (IF p \in StepsRun THEN 1 ELSE 0)

\* C28 witness: generate returned with the tests skipped and the deployment
\* and the documentation made: the CI/CD call read the deployment and no
\* tests, and the documentation call read the deployment.
GeneratedWithoutTests ==
    /\ engine = "FullStackGenerator"
    /\ run = "resolved"
    /\ ~options.includeTests /\ options.includeDeployment /\ options.includeDocs
    /\ request["cicd"].reads = {"deployment"}
    /\ "deployment" \in request["docs"].reads
    /\ "tests" \notin DOMAIN returned
    /\ "cicd" \in DOMAIN returned

\* The attempts of callWithRetry in which fn was called.
Made == { a \in Attempts : calls[a] > 0 }

\* C29: for maxRetries >= 1, fn is called once per attempt, in at most
\* maxRetries attempts, each one after all the attempts before it were
\* rejected; a response is returned from the attempt that gave it and no
\* attempt is made after it; the call rejects only when maxRetries attempts
\* were rejected, with the error of the last one; the waits are one for
\* every attempt but the first, each of delay, and none is pending once the
\* call has settled.
RetryUntilFirstSuccess ==
    (engine = "callWithRetry" /\ run # "idle" /\ maxRetries >= 1) =>
        /\ Made = 1 .. Cardinality(Made)
        /\ Cardinality(Made) <= maxRetries
        /\ \A a \in Made : calls[a] = 1 /\ \A b \in 1 .. a - 1 : op[b] = "throw"
        /\ Len(waits) = Cardinality(Made) - 1
        /\ \A k \in 1 .. Len(waits) : waits[k] = delay
        /\ run = "resolved" =>
               /\ op[Cardinality(Made)] \in {"ok", "fail"}
               /\ returned = [attempt |-> Cardinality(Made),
                              success |-> (op[Cardinality(Made)] = "ok")]
               /\ timer = -1
        /\ run = "rejected" =>
               /\ Cardinality(Made) = maxRetries
               /\ \A a \in Made : op[a] = "throw"
               /\ error = ErrorOf(maxRetries)
               /\ timer = -1
        /\ run = "pending" => \A a \in Made : a < Cardinality(Made) => op[a] = "throw"

\* C29 witness: with maxRetries = 3 the first two attempts were rejected and
\* the third gave the response that was returned, after two waits.
ThirdAttemptReturned ==
    /\ engine = "callWithRetry"
    /\ maxRetries = 3
    /\ run = "resolved"
    /\ returned.attempt = 3
    /\ Len(waits) = 2

\* C30: for every maxRetries, a callWithRetry that has settled has called
\* fn, and has resolved with a response of fn or rejected with an error of fn.
SettlesOnlyThroughFn ==
    (engine = "callWithRetry" /\ run \in {"resolved", "rejected"}) =>
        /\ Made # {}
        /\ run = "resolved" => "attempt" \in DOMAIN returned
        /\ run = "rejected" => error \in { ErrorOf(a) : a \in Made }

\* C31: once a step of SequentialPipeline.execute has resolved with
\* success = false, execute has returned; no step after it was called; the
\* results returned are those of the steps before it, in order; and their
\* number is the number of steps that succeeded.
SeqStopsAtFirstFailure ==
    engine = "SequentialPipeline" =>
        \A k \in Listed : op[k] = "fail" =>
            /\ run = "resolved"
            /\ \A j \in 1 .. k - 1 : calls[j] = 1 /\ op[j] = "ok"
            /\ calls[k] = 1
            /\ \A j \in Step : j > k => (calls[j] = 0 /\ op[j] = "none")
            /\ returned = ExpectedResults(k - 1)
            /\ Len(returned) = Cardinality(Succeeded)

\* C31 witness: of three steps the first succeeded and the second resolved
\* with success = false; the third was not called and one result was returned.
SeqFailedAtSecondOfThree ==
    /\ engine = "SequentialPipeline"
    /\ Len(steps) = 3
    /\ op[1] = "ok" /\ op[2] = "fail"
    /\ calls[3] = 0
    /\ run = "resolved"
    /\ Len(returned) = 1

\* C32: routeWorkflow routes its tasks one after another, the k-th after the
\* k - 1 before it have settled and been collected; the context the k-th
\* agent is called with holds exactly the keys task_1 .. task_{k-1}, each
\* with the result of that task; and the context object an agent was handed
\* still holds what it held at the call.
RouterContextKeptPerTask ==
    engine = "SmartRouter" =>
        \A k \in Step : calls[k] = 1 =>
            /\ Len(results) >= k - 1
            /\ \A j \in 1 .. k - 1 : calls[j] = 1 /\ op[j] \in {"ok", "fail"}
            /\ \A j \in Step : j > k => (calls[j] = 1 => op[k] \in {"ok", "fail"})
            /\ DOMAIN request[k].context = 1 .. k - 1
            /\ \A j \in 1 .. k - 1 : request[k].context[j] = results[j].result
            /\ HandedContext(k) = request[k].context

\* C32, the part that holds: the tasks are routed one after another and the
\* k-th agent is called with exactly the results of the k - 1 tasks before it.
RouterContextAtCall ==
    engine = "SmartRouter" =>
        \A k \in Step : calls[k] = 1 =>
            /\ Len(results) >= k - 1
            /\ \A j \in 1 .. k - 1 : calls[j] = 1 /\ op[j] \in {"ok", "fail"}
            /\ \A j \in Step : j > k => (calls[j] = 1 => op[k] \in {"ok", "fail"})
            /\ DOMAIN request[k].context = 1 .. k - 1
            /\ \A j \in 1 .. k - 1 : request[k].context[j] = results[j].result

\* The nodes connected to s through input or output connections, s included.
Connected(s) ==
    LET Adj(n) == deps[n] \cup { m \in Node : n \in deps[m] }
        R[k \in 0 .. NumNodes] ==
            IF k = 0 THEN {s}
            ELSE R[k - 1] \cup UNION { Adj(m) : m \in R[k - 1] }
    IN  R[NumNodes]

\* C33: over an acyclic graph VisualPipeline.execute does not recurse without
\* end, has at most one agent call in flight, calls the agent of a node only
\* after all its input nodes have executed and never more than once, and when
\* it has returned it has executed exactly the nodes connected to the start
\* node, each once, and returned one result for each of them.
VisExecutesConnectedOnce ==
    (engine = "VisualPipeline" /\ ~Cyclic) =>
        /\ run # "diverged"
        /\ Cardinality({ i \in 1 .. Len(stack) : stack[i].pc = "agent" }) <= 1
        /\ \A n \in Node : calls[n] > 0 => deps[n] \subseteq executed
        /\ \A n \in Node : calls[n] <= 1
        /\ run = "resolved" =>
              /\ executed = Connected(start)
              /\ \A n \in Node : calls[n] = IF n \in Connected(start) THEN 1 ELSE 0
              /\ DOMAIN returned = executed

\* C33 without "exactly once": what execute does keep over an acyclic graph,
\* with every connected node executed at least once.
VisExecutesConnected ==
    (engine = "VisualPipeline" /\ ~Cyclic) =>
        /\ run # "diverged"
        /\ Cardinality({ i \in 1 .. Len(stack) : stack[i].pc = "agent" }) <= 1
        /\ \A n \in Node : calls[n] > 0 => deps[n] \subseteq executed
        /\ run = "resolved" =>
              /\ executed = Connected(start)
              /\ \A n \in Node : (calls[n] > 0) = (n \in Connected(start))
              /\ DOMAIN returned = executed

\* The lines whose agent request has not settled yet.
CliPending == { i \in 1 .. Len(called) : called[i].state = "pending" }

\* C34: the CLI handles one line at a time: no line is taken up while the
\* agent request of an earlier line is pending, so at most one request is in
\* flight and it belongs to the last line entered; and the prompt is the last
\* thing printed only when no command is in progress.
CliOneLineAtATime ==
    engine = "cli.js" =>
        /\ Cardinality(CliPending) <= 1
        /\ \A i \in CliPending : i = Len(called)
        /\ (printed # << >> /\ printed[Len(printed)] = "prompt") => CliPending = {}

\* The number of times the message m was printed.
Printed(m) == Cardinality({ j \in 1 .. Len(printed) : printed[j] = m })

\* The lines whose agent call has settled with outcome o.
CliSettled(o) == { i \in 1 .. Len(called) : called[i].op = o }

\* C35: an agent call that rejects does not end the CLI: every rejection
\* has printed one error message, followed by the empty line and the
\* prompt; the process has exited with status 1 only for missing
\* credentials, before any line was handled, and otherwise only with status
\* 0 after the goodbye of an exit command, of the end of the input or of
\* Ctrl+C; and while it has not exited and no request is pending the prompt
\* is showing.
CliSurvivesAgentErrors ==
    engine = "cli.js" =>
        /\ Printed("Error") = Cardinality(CliSettled("throw"))
        /\ \A j \in 1 .. Len(printed) : printed[j] = "Error" =>
              /\ j + 2 <= Len(printed)
              /\ printed[j + 1] = "" /\ printed[j + 2] = "prompt"
        /\ (pc = "exited") = (exitCode # -1)
        /\ exitCode \in {-1, 0, 1}
        /\ exitCode = 1 => (~authenticated /\ called = << >>)
        /\ exitCode = 0 => printed[Len(printed)] = "Goodbye"
        /\ (pc = "prompt" /\ CliPending = {}) => printed[Len(printed)] = "prompt"

\* C35 witness: the agent calls of two lines have both rejected, two error
\* messages were printed and the CLI is at its prompt, not exited.
CliAtPromptAfterTwoErrors ==
    /\ engine = "cli.js"
    /\ Len(called) = 2
    /\ CliSettled("throw") = {1, 2}
    /\ Printed("Error") = 2
    /\ pc = "prompt"
    /\ exitCode = -1
    /\ printed[Len(printed)] = "prompt"

\* C36: every line whose agent request has settled has printed the result
\* or an error message, whether the call resolved with success = true, with
\* success = false or rejected: the results and error messages printed are
\* as many as the requests that have settled.
CliAlwaysGivesFeedback ==
    engine = "cli.js" =>
        Printed("result") + Printed("Error") =
            Cardinality(CliSettled("ok") \cup CliSettled("fail") \cup CliSettled("throw"))

\* C36 for the calls that resolve with success = true or reject: each has
\* printed its result or its error message.
CliFeedbackUnlessFailed ==
    engine = "cli.js" =>
        /\ Printed("result") = Cardinality(CliSettled("ok"))
        /\ Printed("Error") = Cardinality(CliSettled("throw"))

====
